---- MODULE Spec2Model ----
(***************************************************************************)
(* Two transaction handlers of cosmwasm-examples:                          *)
(*   - the erc20 token ledger   (src/erc20/src/contract.rs)                *)
(*   - the staking-weighted governance contract                            *)
(*                              (src/voting/src/contract.rs, state.rs)     *)
(*                                                                         *)
(* Every action is one inbound message handled to completion.  The store   *)
(* variables hold what the handler has written when it returns or aborts:  *)
(* a write made before an error or a panic stays in the store, the host's  *)
(* transaction wrapper that would discard it is not part of the handlers.  *)
(* `last` / `glast` record the message handled last and its result.        *)
(*                                                                         *)
(* Amounts are u128 in the source.  All amounts of the model stay far      *)
(* below 2^128 - 1, so no addition overflows; a subtraction below zero     *)
(* aborts the handler (Rust's arithmetic overflow check).  The quorum's    *)
(* conversion to u8 keeps its width (% 256).                               *)
(***************************************************************************)
EXTENDS Integers, Sequences, FiniteSets, TLC

\* ------------------------------------------------------------------ bounds
MaxBalance == 2       \* ledger: mint is not taken above this balance / supply
MaxRows == 2          \* ledger: longest initial_balances list

\* ------------------------------------------------------------ shared values
Addr == {"a1", "a2"}
NoAddr == "none"

Digits == <<"0", "1", "2", "3", "4", "5", "6", "7", "8", "9">>

DigitValue(c) == (CHOOSE i \in 1..10 : Digits[i] = c) - 1

IsDigit(c) == \E i \in 1..10 : Digits[i] = c

RECURSIVE to_string(_)
\* decimal rendering of a non-negative integer, as a sequence of characters
to_string(n) == IF n < 10 THEN <<Digits[n + 1]>>
                ELSE to_string(n \div 10) \o <<Digits[(n % 10) + 1]>>

RECURSIVE DigitsValue(_)
DigitsValue(s) == IF s = <<>> THEN 0
                  ELSE DigitsValue(SubSeq(s, 1, Len(s) - 1)) * 10 + DigitValue(s[Len(s)])

ParseError == -1

\* str::parse::<u128>: an optional leading '+', then one or more decimal
\* digits; anything else is an error
parse_u128(source) ==
    LET body == IF source # <<>> /\ source[1] = "+" THEN Tail(source) ELSE source
    IN  IF body # <<>> /\ \A i \in 1..Len(body) : IsDigit(body[i])
        THEN DigitsValue(body)
        ELSE ParseError

\* the amount strings the messages of the model carry
AmountStrings == { <<"0">>, <<"1">>, <<"x">> }

\* ====================================================================
\* erc20 ledger
\* ====================================================================
VARIABLES
    phase,          \* "new" before init, "ready" after a successful init, "failed" after a rejected one
    balances,       \* PREFIX_BALANCES store, as read_u128 reads it: [Addr -> amount]
    allowances,     \* PREFIX_ALLOWANCES store, as read_u128 reads it: [owner -> [spender -> amount]]
    total_supply,   \* KEY_TOTAL_SUPPLY
    constants,      \* KEY_CONSTANTS: the stored Constants
    minter,         \* State.minter: NoAddr until init saves it
    last            \* the ledger message handled last, and its result

ledger_vars == <<phase, balances, allowances, total_supply, constants, minter, last>>

\* read_u128: the amount stored under the key, zero if the key does not
\* exist.  A store of the model holds 0 under every key never written: no
\* handler reads a store except through read_u128, which cannot tell the two
\* apart.
read_u128(store, key) == store[key]

read_balance(store, owner) == read_u128(store, owner)

read_allowance(store, owner, spender) == read_u128(store[owner], spender)

write_allowance(store, owner, spender, amount) ==
    [store EXCEPT ![owner] = [@ EXCEPT ![spender] = amount]]

is_valid_name(name_len) == ~(name_len < 3 \/ name_len > 30)

is_valid_symbol(symbol) ==
    /\ ~(Len(symbol) < 3 \/ Len(symbol) > 6)
    /\ \A i \in 1..Len(symbol) : ~(symbol[i] < 65 \/ symbol[i] > 90)

SumBalances(store) ==
    LET RECURSIVE Sum(_)
        Sum(S) == IF S = {} THEN 0
                  ELSE LET a == CHOOSE x \in S : TRUE
                       IN  read_balance(store, a) + Sum(S \ {a})
    IN  Sum(Addr)

\* the record of a handled ledger message; prev_allowance is what
\* read_allowance(owner, spender) gave when the message arrived
LedgerMsg(op, sender, owner, spender, recipient, amount, rows, result) ==
    [op |-> op, sender |-> sender, owner |-> owner, spender |-> spender,
     recipient |-> recipient, amount |-> amount, rows |-> rows, result |-> result,
     prev_allowance |-> IF owner \in Addr /\ spender \in Addr
                        THEN read_allowance(allowances, owner, spender) ELSE 0]

Row(address, amount) == [address |-> address, amount |-> amount]

\* the initial_balances lists of the model: up to MaxRows rows
InitialBalances ==
    UNION { [1..n -> { Row(a, s) : a \in Addr, s \in AmountStrings }] : n \in 0..MaxRows }

\* init, lines 36-41: every row's amount is set under the row's address and
\* added to total_supply; a row that does not parse ends the loop with an error
RECURSIVE init_balances(_, _, _)
init_balances(rows, store, total) ==
    IF rows = <<>> THEN [store |-> store, total |-> total, ok |-> TRUE]
    ELSE LET row == Head(rows)
             amount_raw == parse_u128(row.amount)
         IN  IF amount_raw = ParseError
             THEN [store |-> store, total |-> total, ok |-> FALSE]
             ELSE init_balances(Tail(rows),
                                [store EXCEPT ![row.address] = amount_raw],
                                total + amount_raw)

\* init that does not save the sender as the minter
erc20_init_unowned(sender, name_len, symbol, decimals, rows) ==
    /\ phase = "new"
    /\ LET r == init_balances(rows, balances, 0)
           error == IF ~r.ok THEN "Error while parsing string to u128"
                    ELSE IF ~is_valid_name(name_len)
                    THEN "Name is not in the expected format (3-30 UTF-8 bytes)"
                    ELSE IF ~is_valid_symbol(symbol)
                    THEN "Ticker symbol is not in expected format [A-Z]{3,6}"
                    ELSE IF decimals > 18 THEN "Decimals must not exceed 18"
                    ELSE "ok"
       IN  /\ balances' = r.store
           /\ IF error = "ok"
              THEN /\ constants' = [name_len |-> name_len, symbol |-> symbol,
                                    decimals |-> decimals]
                   /\ total_supply' = r.total
                   /\ minter' = NoAddr
                   /\ phase' = "ready"
              ELSE /\ UNCHANGED <<constants, total_supply, minter>>
                   /\ phase' = "failed"
           /\ last' = LedgerMsg("init", sender, NoAddr, NoAddr, NoAddr, <<>>, rows, error)
    /\ UNCHANGED allowances

erc20_init(sender, name_len, symbol, decimals, rows) ==
    /\ phase = "new"
    /\ LET r == init_balances(rows, balances, 0)
           error == IF ~r.ok THEN "Error while parsing string to u128"
                    ELSE IF ~is_valid_name(name_len)
                    THEN "Name is not in the expected format (3-30 UTF-8 bytes)"
                    ELSE IF ~is_valid_symbol(symbol)
                    THEN "Ticker symbol is not in expected format [A-Z]{3,6}"
                    ELSE IF decimals > 18 THEN "Decimals must not exceed 18"
                    ELSE "ok"
       IN  /\ balances' = r.store
           /\ IF error = "ok"
              THEN /\ constants' = [name_len |-> name_len, symbol |-> symbol,
                                    decimals |-> decimals]
                   /\ total_supply' = r.total
                   /\ minter' = sender
                   /\ phase' = "ready"
              ELSE /\ UNCHANGED <<constants, total_supply, minter>>
                   /\ phase' = "failed"
           /\ last' = LedgerMsg("init", sender, NoAddr, NoAddr, NoAddr, <<>>, rows, error)
    /\ UNCHANGED allowances

\* perform_transfer reading the recipient's balance before it has written the
\* sender's
perform_transfer_stale(store, from, to, amount) ==
    LET from_balance == read_u128(store, from)
        to_balance == read_u128(store, to) + amount
    IN  IF from_balance < amount
        THEN [store |-> store, ok |-> FALSE]
        ELSE [store |-> [[store EXCEPT ![from] = from_balance - amount]
                             EXCEPT ![to] = to_balance],
              ok |-> TRUE]

\* perform_transfer on the balances store: the store it leaves and whether
\* it returned Ok
perform_transfer(store, from, to, amount) ==
    LET from_balance == read_u128(store, from)
    IN  IF from_balance < amount
        THEN [store |-> store, ok |-> FALSE]
        ELSE LET s1 == [store EXCEPT ![from] = from_balance - amount]
                 to_balance == read_u128(s1, to) + amount
             IN  [store |-> [s1 EXCEPT ![to] = to_balance], ok |-> TRUE]

try_transfer(sender, recipient, amount) ==
    /\ phase = "ready"
    /\ LET amount_raw == parse_u128(amount)
           r == perform_transfer(balances, sender, recipient, amount_raw)
           result == IF amount_raw = ParseError THEN "Error while parsing string to u128"
                     ELSE IF ~r.ok THEN "Insufficient funds" ELSE "ok"
       IN  /\ balances' = IF amount_raw = ParseError THEN balances ELSE r.store
           /\ last' = LedgerMsg("transfer", sender, NoAddr, NoAddr, recipient, amount, <<>>, result)
    /\ UNCHANGED <<phase, allowances, total_supply, constants, minter>>

\* try_transfer_from without its allowance check
try_transfer_from_unchecked(sender, owner, recipient, amount) ==
    /\ phase = "ready"
    /\ LET amount_raw == parse_u128(amount)
           allowance == read_allowance(allowances, owner, sender)
           r == perform_transfer(balances, owner, recipient, amount_raw)
           result == IF amount_raw = ParseError THEN "Error while parsing string to u128"
                     ELSE IF ~r.ok THEN "Insufficient funds" ELSE "ok"
       IN  /\ IF amount_raw = ParseError
              THEN UNCHANGED <<allowances, balances>>
              ELSE /\ allowances' = write_allowance(allowances, owner, sender,
                                        IF allowance < amount_raw THEN 0
                                        ELSE allowance - amount_raw)
                   /\ balances' = r.store
           /\ last' = LedgerMsg("transfer_from", sender, owner, sender, recipient, amount,
                                <<>>, result)
    /\ UNCHANGED <<phase, total_supply, constants, minter>>

try_transfer_from(sender, owner, recipient, amount) ==
    /\ phase = "ready"
    /\ LET amount_raw == parse_u128(amount)
           allowance == read_allowance(allowances, owner, sender)
           r == perform_transfer(balances, owner, recipient, amount_raw)
           result == IF amount_raw = ParseError THEN "Error while parsing string to u128"
                     ELSE IF allowance < amount_raw THEN "Insufficient allowance"
                     ELSE IF ~r.ok THEN "Insufficient funds" ELSE "ok"
       IN  /\ IF amount_raw = ParseError \/ allowance < amount_raw
              THEN UNCHANGED <<allowances, balances>>
              ELSE /\ allowances' = write_allowance(allowances, owner, sender,
                                                    allowance - amount_raw)
                   /\ balances' = r.store
           /\ last' = LedgerMsg("transfer_from", sender, owner, sender, recipient, amount,
                                <<>>, result)
    /\ UNCHANGED <<phase, total_supply, constants, minter>>

\* try_approve adding the amount to the allowance instead of overwriting it
try_approve_adding(sender, spender, amount) ==
    /\ phase = "ready"
    /\ LET amount_raw == parse_u128(amount)
       IN  IF amount_raw = ParseError
           THEN /\ UNCHANGED allowances
                /\ last' = LedgerMsg("approve", sender, sender, spender, NoAddr, amount, <<>>,
                                     "Error while parsing string to u128")
           ELSE /\ allowances' = write_allowance(allowances, sender, spender,
                                     read_allowance(allowances, sender, spender) + amount_raw)
                /\ last' = LedgerMsg("approve", sender, sender, spender, NoAddr, amount, <<>>,
                                     "ok")
    /\ UNCHANGED <<phase, balances, total_supply, constants, minter>>

try_approve(sender, spender, amount) ==
    /\ phase = "ready"
    /\ LET amount_raw == parse_u128(amount)
       IN  IF amount_raw = ParseError
           THEN /\ UNCHANGED allowances
                /\ last' = LedgerMsg("approve", sender, sender, spender, NoAddr, amount, <<>>,
                                     "Error while parsing string to u128")
           ELSE /\ allowances' = write_allowance(allowances, sender, spender, amount_raw)
                /\ last' = LedgerMsg("approve", sender, sender, spender, NoAddr, amount, <<>>,
                                     "ok")
    /\ UNCHANGED <<phase, balances, total_supply, constants, minter>>

\* try_burn leaving the total supply as it was
try_burn_balance_only(sender, amount) ==
    /\ phase = "ready"
    /\ LET amount_raw == parse_u128(amount)
           account_balance == read_balance(balances, sender)
           result == IF amount_raw = ParseError THEN "Error while parsing string to u128"
                     ELSE IF account_balance < amount_raw THEN "insufficient funds to burn"
                     ELSE IF total_supply < amount_raw
                     THEN "panic: attempt to subtract with overflow"
                     ELSE "ok"
       IN  /\ IF amount_raw = ParseError \/ account_balance < amount_raw
              THEN UNCHANGED <<balances, total_supply>>
              ELSE /\ balances' = [balances EXCEPT ![sender] = account_balance - amount_raw]
                   /\ IF total_supply < amount_raw
                      THEN UNCHANGED total_supply
                      ELSE UNCHANGED total_supply
           /\ last' = LedgerMsg("burn", sender, sender, NoAddr, NoAddr, amount, <<>>, result)
    /\ UNCHANGED <<phase, allowances, constants, minter>>

try_burn(sender, amount) ==
    /\ phase = "ready"
    /\ LET amount_raw == parse_u128(amount)
           account_balance == read_balance(balances, sender)
           result == IF amount_raw = ParseError THEN "Error while parsing string to u128"
                     ELSE IF account_balance < amount_raw THEN "insufficient funds to burn"
                     ELSE IF total_supply < amount_raw
                     THEN "panic: attempt to subtract with overflow"
                     ELSE "ok"
       IN  /\ IF amount_raw = ParseError \/ account_balance < amount_raw
              THEN UNCHANGED <<balances, total_supply>>
              ELSE /\ balances' = [balances EXCEPT ![sender] = account_balance - amount_raw]
                   /\ IF total_supply < amount_raw
                      THEN UNCHANGED total_supply
                      ELSE total_supply' = total_supply - amount_raw
           /\ last' = LedgerMsg("burn", sender, sender, NoAddr, NoAddr, amount, <<>>, result)
    /\ UNCHANGED <<phase, allowances, constants, minter>>

\* try_mint adding to the total supply before it tests the minter
try_mint_supply_first(sender, recipient, amount) ==
    /\ phase = "ready"
    /\ LET amount_raw == parse_u128(amount)
           account_balance == read_balance(balances, recipient)
           result == IF amount_raw = ParseError THEN "Error while parsing string to u128"
                     ELSE IF sender # minter THEN "panic: not authorized minter"
                     ELSE "ok"
       IN  \* the model stops minting at MaxBalance
           /\ amount_raw # ParseError =>
                  /\ SumBalances(balances) + amount_raw <= MaxBalance
                  /\ total_supply + amount_raw <= MaxBalance
           /\ IF amount_raw = ParseError
              THEN UNCHANGED <<balances, total_supply>>
              ELSE /\ balances' = [balances EXCEPT ![recipient] = account_balance + amount_raw]
                   /\ IF sender # minter
                      THEN total_supply' = total_supply + amount_raw
                      ELSE total_supply' = total_supply + amount_raw
           /\ last' = LedgerMsg("mint", sender, NoAddr, NoAddr, recipient, amount, <<>>, result)
    /\ UNCHANGED <<phase, allowances, constants, minter>>

try_mint(sender, recipient, amount) ==
    /\ phase = "ready"
    /\ LET amount_raw == parse_u128(amount)
           account_balance == read_balance(balances, recipient)
           result == IF amount_raw = ParseError THEN "Error while parsing string to u128"
                     ELSE IF sender # minter THEN "panic: not authorized minter"
                     ELSE "ok"
       IN  \* the model stops minting at MaxBalance
           /\ amount_raw # ParseError =>
                  /\ SumBalances(balances) + amount_raw <= MaxBalance
                  /\ total_supply + amount_raw <= MaxBalance
           /\ IF amount_raw = ParseError
              THEN UNCHANGED <<balances, total_supply>>
              ELSE /\ balances' = [balances EXCEPT ![recipient] = account_balance + amount_raw]
                   /\ IF sender # minter
                      THEN UNCHANGED total_supply
                      ELSE total_supply' = total_supply + amount_raw
           /\ last' = LedgerMsg("mint", sender, NoAddr, NoAddr, recipient, amount, <<>>, result)
    /\ UNCHANGED <<phase, allowances, constants, minter>>

\* the Constants the init messages of the model carry: name length in bytes,
\* symbol as its bytes, decimals
NameLens == {2, 3}
Symbols == { <<65, 66>>, <<65, 66, 67>>, <<65, 98, 67>> }
Decimals == {18, 19}

LedgerInit ==
    /\ phase = "new"
    /\ balances = [a \in Addr |-> 0]
    /\ allowances = [o \in Addr |-> [s \in Addr |-> 0]]
    /\ total_supply = 0
    /\ constants = [name_len |-> 0, symbol |-> <<>>, decimals |-> 0]
    /\ minter = NoAddr
    /\ last = LedgerMsg("none", NoAddr, NoAddr, NoAddr, NoAddr, <<>>, <<>>, "none")


\* ====================================================================
\* ledger claims
\* ====================================================================
Conserved == total_supply = SumBalances(balances)

\* C1: every ledger handler step preserves conservation: if total supply
\* equals the sum of all balances before a transfer, transferFrom, approve,
\* mint or burn message, accepted or rejected, it still does after it.
C1_ConservationPreserved ==
    [][(phase = "ready" /\ Conserved) => Conserved']_ledger_vars

RECURSIVE SumRows(_, _)
\* the sum of the amounts of the rows naming address a
SumRows(rows, a) ==
    IF rows = <<>> THEN 0
    ELSE (IF Head(rows).address = a THEN parse_u128(Head(rows).amount) ELSE 0)
         + SumRows(Tail(rows), a)

\* C2: after a successful init, each address's balance is the sum of the
\* amounts of the initial-balance rows naming it, and total supply equals the
\* sum of all balances.
C2_InitCreditsEveryRow ==
    (last.op = "init" /\ last.result = "ok") =>
        /\ \A a \in Addr : read_balance(balances, a) = SumRows(last.rows, a)
        /\ Conserved

\* C3: a mint sent by an account other than the recorded minter is rejected,
\* and every balance and the total supply are the same after it as before.
C3_UnauthorizedMintChangesNothing ==
    [][(last'.op = "mint" /\ last'.sender # minter) =>
            /\ last'.result # "ok"
            /\ \A a \in Addr : read_balance(balances', a) = read_balance(balances, a)
            /\ total_supply' = total_supply]_ledger_vars

\* C4: transferFrom never succeeds with amount > allowance(owner, spender) at
\* call time; when it succeeds the allowance decreases by exactly amount, the
\* owner's balance decreases by amount and the recipient's increases by amount
\* (one account in both roles keeps its balance), no other balance changes.
C4_TransferFromWithinAllowance ==
    [][(last'.op = "transfer_from" /\ last'.result = "ok") =>
            LET amount_raw == parse_u128(last'.amount)
                owner == last'.owner
                spender == last'.sender
                recipient == last'.recipient
                allowance == read_allowance(allowances, owner, spender)
            IN  /\ amount_raw # ParseError
                /\ amount_raw <= allowance
                /\ read_allowance(allowances', owner, spender) = allowance - amount_raw
                /\ read_allowance(allowances', owner, spender) >= 0
                /\ IF owner = recipient
                   THEN read_balance(balances', owner) = read_balance(balances, owner)
                   ELSE /\ read_balance(balances', owner)
                             = read_balance(balances, owner) - amount_raw
                        /\ read_balance(balances', recipient)
                             = read_balance(balances, recipient) + amount_raw
                /\ \A a \in Addr \ {owner, recipient} :
                       read_balance(balances', a) = read_balance(balances, a)]_ledger_vars

\* a delegated transfer of a positive amount has succeeded, by a spender who
\* is not the owner
C4_Witness ==
    /\ last.op = "transfer_from" /\ last.result = "ok"
    /\ parse_u128(last.amount) = 1
    /\ last.prev_allowance = 1
    /\ last.sender # last.owner
    /\ last.recipient # last.owner

\* C5: after approve(spender, a) by owner, allowance(owner, spender) is a
\* whatever it was before: approve overwrites, it does not add.
C5_ApproveOverwrites ==
    (last.op = "approve" /\ last.result = "ok") =>
        read_allowance(allowances, last.sender, last.spender) = parse_u128(last.amount)

\* an approve of 1 has succeeded on an allowance that was already 1, and
\* the allowance is 1, not 2
C5_Witness ==
    /\ last.op = "approve" /\ last.result = "ok"
    /\ last.prev_allowance = 1
    /\ parse_u128(last.amount) = 1
    /\ read_allowance(allowances, last.sender, last.spender) = 1

\* ====================================================================
\* voting: staking-weighted governance
\* ====================================================================
MIN_STAKE_AMOUNT == 10
MIN_DESC_LENGTH == 3
MAX_DESC_LENGTH == 64
VOTING_TOKEN == "voting_token"

\* Option<T>: None is the empty sequence, Some(x) the sequence of x alone
None == <<>>
Some(x) == <<x>>
is_some(o) == o # <<>>
unwrap(o) == o[1]

VARIABLES
    state,            \* config singleton: State.poll_count, State.staked_tokens
    bank,             \* BANK_KEY bucket: voter -> TokenManager, for the voters it holds
    polls,            \* POLL_KEY bucket: poll id -> Poll, for the polls it holds
    poll_voter_info,  \* POLL_VOTER_INFO_KEY bucket: poll-voter key -> Voter
    locked_tokens,    \* LOCKED_TOKENS_KEY bucket: poll-voter key -> Uint128
    height,           \* env.block.height of the next message
    glast             \* the governance message handled last, and its result;
                      \* staked_weight is the querier's answer when end_poll asked for it

gov_vars == <<state, bank, polls, poll_voter_info, locked_tokens, height, glast>>

\* one application of end_poll's resolution of a tally to arguments of its
\* own: the arguments, and the outcome once it has been computed
VARIABLE tally

\* one key of a store at the level of its bytes: what store.get(key) returns,
\* the amount set under the key last, and the result of read_u128 once it has
\* read the key
VARIABLE raw

vars == <<ledger_vars, gov_vars, tally, raw>>

\* ------------------------------------------------ the stored form of an amount
\* the length of the slice bytes_to_u128 takes: data[0..16]
U128_BYTES == 16

RECURSIVE to_be_bytes_n(_, _)
\* the n low-order bytes of amount, the most significant first
to_be_bytes_n(amount, n) ==
    IF n = 0 THEN <<>>
    ELSE Append(to_be_bytes_n(amount \div 256, n - 1), amount % 256)

\* u128::to_be_bytes
to_be_bytes(amount) == to_be_bytes_n(amount, U128_BYTES)

RECURSIVE from_be_bytes(_)
\* u128::from_be_bytes
from_be_bytes(bytes) ==
    IF bytes = <<>> THEN 0
    ELSE from_be_bytes(SubSeq(bytes, 1, Len(bytes) - 1)) * 256 + bytes[Len(bytes)]

ReadResult(result, value) == [result |-> result, value |-> value]

\* bytes_to_u128: the slice data[0..16] aborts on data shorter than 16 bytes;
\* try_into fails on a slice that is not 16 bytes long
bytes_to_u128(data) ==
    IF Len(data) < U128_BYTES
    THEN ReadResult("panic: range end index 16 out of range for slice", 0)
    ELSE LET slice == SubSeq(data, 1, U128_BYTES)
         IN  IF Len(slice) = U128_BYTES
             THEN ReadResult("ok", from_be_bytes(slice))
             ELSE ReadResult("Corrupted data found. 16 byte expected.", 0)

\* read_u128 applied to what store.get(key) has returned
read_u128_raw(result) ==
    IF is_some(result) THEN bytes_to_u128(unwrap(result)) ELSE ReadResult("ok", 0)

NoRead == ReadResult("none", 0)

\* a key that is absent, never set and not read
NoRaw == [data |-> None, written |-> None, read |-> NoRead]

\* the amounts set under the key
AccessorAmounts == {0, 1, 255, 256, 65535, 65536, 16777216, 2147483647}

\* what the key may hold before the first step: nothing, the 16 bytes of an
\* amount, their last 0, 1 or 15 bytes, or 17 or 32 bytes that start with them
StoredData ==
    {None}
    \cup { Some(to_be_bytes(v)) : v \in AccessorAmounts }
    \cup { Some(SubSeq(to_be_bytes(v), U128_BYTES + 1 - n, U128_BYTES)) :
               v \in AccessorAmounts, n \in {0, 1, U128_BYTES - 1} }
    \cup { Some(to_be_bytes(v) \o <<b>>) : v \in AccessorAmounts, b \in {0, 255} }
    \cup { Some(to_be_bytes(v) \o to_be_bytes(w)) :
               v \in AccessorAmounts, w \in AccessorAmounts }

AccessorInputs == { [data |-> d, written |-> None, read |-> NoRead] : d \in StoredData }

\* store.set(key, &amount.to_be_bytes())
AccessorSet ==
    /\ \E amount \in AccessorAmounts :
           raw' = [data |-> Some(to_be_bytes(amount)), written |-> Some(amount),
                   read |-> NoRead]
    /\ UNCHANGED <<ledger_vars, gov_vars, tally>>

\* read_u128(store, key)
AccessorRead ==
    /\ raw.read = NoRead
    /\ raw' = [raw EXCEPT !.read = read_u128_raw(raw.data)]
    /\ UNCHANGED <<ledger_vars, gov_vars, tally>>

AccessorNext ==
    \/ AccessorSet
    \/ AccessorRead

\* CanonicalAddr::to_string of the accounts of the model
addr_to_string(a) == IF a = "a1" THEN <<"a", "1">> ELSE <<"a", "2">>

get_poll_voter_key(poll_id, voter_address) ==
    to_string(poll_id) \o addr_to_string(voter_address)

coin(amount, denom) == [amount |-> amount, denom |-> denom]

\* Bucket::save: the bucket with value stored under key
save(bucket, key, value) == (key :> value) @@ bucket

\* Bucket::may_load(key).is_some()
may_load(bucket, key) == key \in DOMAIN bucket

\* assert_sent_sufficient_coin looking at the denomination alone
assert_sent_denom(sent, required) ==
    \E i \in 1..Len(sent) : sent[i].denom = required.denom

\* coin_helpers::assert_sent_sufficient_coin: some coin sent has the required
\* denomination and at least the required amount
assert_sent_sufficient_coin(sent, required) ==
    \E i \in 1..Len(sent) :
        sent[i].denom = required.denom /\ sent[i].amount >= required.amount

\* sent_funds.iter().find(|coin| coin.denom == VOTING_TOKEN).unwrap()
find_voting_token(sent) ==
    sent[CHOOSE i \in 1..Len(sent) :
            /\ sent[i].denom = VOTING_TOKEN
            /\ \A j \in 1..(i - 1) : sent[j].denom # VOTING_TOKEN]

\* send_tokens: the one BankMsg::Send of the response
send_tokens(from_address, to_address, amount) ==
    <<[from_address |-> from_address, to_address |-> to_address, amount |-> amount]>>

ContractAddr == "contract"

GovMsg(op, sender, poll_id, vote, weight, amount, staked_weight, result, passed, rejected_reason, messages) ==
    [op |-> op, sender |-> sender, poll_id |-> poll_id, vote |-> vote, weight |-> weight,
     amount |-> amount, staked_weight |-> staked_weight, result |-> result,
     passed |-> passed, rejected_reason |-> rejected_reason, messages |-> messages]

GovError(op, sender, poll_id, vote, weight, amount, staked_weight, result) ==
    GovMsg(op, sender, poll_id, vote, weight, amount, staked_weight, result, FALSE, "", <<>>)

NewTokenManager == [token_balance |-> 0, participated_polls |-> <<>>]

\* bank_read(..).may_load(key), or a new TokenManager with nothing staked
load_token_manager(voter) ==
    IF may_load(bank, voter) THEN bank[voter] ELSE NewTokenManager

MaxStake == 20        \* stake is not taken above this staked balance
MaxPolls == 2         \* create_poll is not taken for more polls than this
MaxHeight == 3        \* the block height does not go beyond this

\* stake_voting_tokens leaving the aggregate staked counter as it was
stake_voting_tokens_uncounted(sender, sent_funds) ==
    IF ~assert_sent_sufficient_coin(sent_funds, coin(MIN_STAKE_AMOUNT, VOTING_TOKEN))
    THEN /\ glast' = GovError("stake", sender, 0, "", 0, None, 0, "Insufficient funds sent")
         /\ UNCHANGED <<state, bank, polls, poll_voter_info, locked_tokens, height>>
    ELSE LET token_manager == load_token_manager(sender)
             sent == find_voting_token(sent_funds)
             balance == token_manager.token_balance + sent.amount
         IN  /\ UNCHANGED state
             /\ bank' = save(bank, sender, [token_manager EXCEPT !.token_balance = balance])
             /\ glast' = GovMsg("stake", sender, 0, "", 0, Some(sent.amount), 0, "ok", FALSE, "",
                                send_tokens(sender, ContractAddr, sent_funds))
             /\ UNCHANGED <<polls, poll_voter_info, locked_tokens, height>>

stake_voting_tokens(sender, sent_funds) ==
    IF ~assert_sent_sufficient_coin(sent_funds, coin(MIN_STAKE_AMOUNT, VOTING_TOKEN))
    THEN /\ glast' = GovError("stake", sender, 0, "", 0, None, 0, "Insufficient funds sent")
         /\ UNCHANGED <<state, bank, polls, poll_voter_info, locked_tokens, height>>
    ELSE LET token_manager == load_token_manager(sender)
             sent == find_voting_token(sent_funds)
             balance == token_manager.token_balance + sent.amount
         IN  /\ state' = [state EXCEPT !.staked_tokens = @ + sent.amount]
             /\ bank' = save(bank, sender, [token_manager EXCEPT !.token_balance = balance])
             /\ glast' = GovMsg("stake", sender, 0, "", 0, Some(sent.amount), 0, "ok", FALSE, "",
                                send_tokens(sender, ContractAddr, sent_funds))
             /\ UNCHANGED <<polls, poll_voter_info, locked_tokens, height>>

RECURSIVE largest_weight(_, _, _)
\* locked_amount's loop: the largest weight among the Voter records of the
\* participated polls
largest_weight(participated_polls, voter, largest) ==
    IF participated_polls = <<>> THEN largest
    ELSE LET voter_info == poll_voter_info[get_poll_voter_key(Head(participated_polls), voter)]
         IN  largest_weight(Tail(participated_polls), voter,
                            IF voter_info.weight > largest THEN voter_info.weight
                            ELSE largest)

locked_amount(voter) == largest_weight(bank[voter].participated_polls, voter, 0)

\* withdraw_voting_tokens comparing the amount alone with the balance
withdraw_voting_tokens_unlocked(sender, amount) ==
    IF may_load(bank, sender)
    THEN LET token_manager == bank[sender]
             withdraw_amount == IF is_some(amount) THEN unwrap(amount)
                                ELSE token_manager.token_balance
         IN  IF withdraw_amount > token_manager.token_balance
             THEN /\ glast' = GovError("withdraw", sender, 0, "", 0, amount, 0,
                                       "User is trying to withdraw too many tokens.")
                  /\ UNCHANGED <<state, bank, polls, poll_voter_info, locked_tokens, height>>
             ELSE /\ bank' = save(bank, sender,
                                  [token_manager EXCEPT !.token_balance = @ - withdraw_amount])
                  /\ state' = [state EXCEPT !.staked_tokens = @ - withdraw_amount]
                  /\ glast' = GovMsg("withdraw", sender, 0, "", 0, amount, 0, "ok",
                                     FALSE, "",
                                     send_tokens(ContractAddr, sender,
                                         <<coin(withdraw_amount, VOTING_TOKEN)>>))
                  /\ UNCHANGED <<polls, poll_voter_info, locked_tokens, height>>
    ELSE /\ glast' = GovError("withdraw", sender, 0, "", 0, amount, 0, "Nothing staked")
         /\ UNCHANGED <<state, bank, polls, poll_voter_info, locked_tokens, height>>

\* withdraw_voting_tokens withdrawing nothing when the amount is omitted
withdraw_voting_tokens_no_default(sender, amount) ==
    IF may_load(bank, sender)
    THEN LET token_manager == bank[sender]
             largest_staked == locked_amount(sender)
             withdraw_amount == IF is_some(amount) THEN unwrap(amount) ELSE 0
         IN  IF largest_staked + withdraw_amount > token_manager.token_balance
             THEN /\ glast' = GovError("withdraw", sender, 0, "", 0, amount, 0,
                                       "User is trying to withdraw too many tokens.")
                  /\ UNCHANGED <<state, bank, polls, poll_voter_info, locked_tokens, height>>
             ELSE /\ bank' = save(bank, sender,
                                  [token_manager EXCEPT !.token_balance = @ - withdraw_amount])
                  /\ IF state.staked_tokens < withdraw_amount
                     THEN /\ UNCHANGED state
                          /\ glast' = GovError("withdraw", sender, 0, "", 0, amount, 0,
                                               "panic: attempt to subtract with overflow")
                     ELSE /\ state' = [state EXCEPT !.staked_tokens = @ - withdraw_amount]
                          /\ glast' = GovMsg("withdraw", sender, 0, "", 0, amount, 0, "ok",
                                             FALSE, "",
                                             send_tokens(ContractAddr, sender,
                                                 <<coin(withdraw_amount, VOTING_TOKEN)>>))
                  /\ UNCHANGED <<polls, poll_voter_info, locked_tokens, height>>
    ELSE /\ glast' = GovError("withdraw", sender, 0, "", 0, amount, 0, "Nothing staked")
         /\ UNCHANGED <<state, bank, polls, poll_voter_info, locked_tokens, height>>

withdraw_voting_tokens(sender, amount) ==
    IF may_load(bank, sender)
    THEN LET token_manager == bank[sender]
             largest_staked == locked_amount(sender)
             withdraw_amount == IF is_some(amount) THEN unwrap(amount)
                                ELSE token_manager.token_balance
         IN  IF largest_staked + withdraw_amount > token_manager.token_balance
             THEN /\ glast' = GovError("withdraw", sender, 0, "", 0, amount, 0,
                                       "User is trying to withdraw too many tokens.")
                  /\ UNCHANGED <<state, bank, polls, poll_voter_info, locked_tokens, height>>
             ELSE /\ bank' = save(bank, sender,
                                  [token_manager EXCEPT !.token_balance = @ - withdraw_amount])
                  /\ IF state.staked_tokens < withdraw_amount
                     THEN /\ UNCHANGED state
                          /\ glast' = GovError("withdraw", sender, 0, "", 0, amount, 0,
                                               "panic: attempt to subtract with overflow")
                     ELSE /\ state' = [state EXCEPT !.staked_tokens = @ - withdraw_amount]
                          /\ glast' = GovMsg("withdraw", sender, 0, "", 0, amount, 0, "ok",
                                             FALSE, "",
                                             send_tokens(ContractAddr, sender,
                                                 <<coin(withdraw_amount, VOTING_TOKEN)>>))
                  /\ UNCHANGED <<polls, poll_voter_info, locked_tokens, height>>
    ELSE /\ glast' = GovError("withdraw", sender, 0, "", 0, amount, 0, "Nothing staked")
         /\ UNCHANGED <<state, bank, polls, poll_voter_info, locked_tokens, height>>

ValidChars ==
    {"0", "1", "2", "3", "4", "5", "6", "7", "8", "9",
     "a", "b", "c", "d", "e", "f", "g", "h", "i", "j", "k", "l", "m",
     "n", "o", "p", "q", "r", "s", "t", "u", "v", "w", "x", "y", "z",
     ".", "-", "_", " "}

invalid_char(c) == ~(c \in ValidChars)

\* validate_description without the upper bound on the length
validate_description_unbounded(description) ==
    IF Len(description) < MIN_DESC_LENGTH THEN "Description too short"
    ELSE IF \E i \in 1..Len(description) : invalid_char(description[i])
    THEN "Invalid character"
    ELSE "ok"

\* validate_description: "ok" or the error's message
validate_description(description) ==
    IF Len(description) < MIN_DESC_LENGTH THEN "Description too short"
    ELSE IF Len(description) > MAX_DESC_LENGTH THEN "Description too long"
    ELSE IF \E i \in 1..Len(description) : invalid_char(description[i])
    THEN "Invalid character"
    ELSE "ok"

\* validate_quorum_percentage: "ok" or the error's message
validate_quorum_percentage(quorum_percentage) ==
    IF quorum_percentage <= 0 \/ quorum_percentage > 100
    THEN "quorum_percentage must be 1 to 100"
    ELSE "ok"

\* create_poll saving the poll under the counter it has loaded
create_poll_old_key(sender, quorum_percentage, description, start_height, end_height) ==
    /\ LET error == IF validate_quorum_percentage(quorum_percentage) # "ok"
                    THEN validate_quorum_percentage(quorum_percentage)
                    ELSE validate_description(description)
           poll_id == state.poll_count + 1
           new_poll == [creator |-> sender, status |-> "InProgress",
                        quorum_percentage |-> quorum_percentage,
                        yes_votes |-> 0, no_votes |-> 0,
                        voters |-> <<>>, voter_info |-> <<>>,
                        end_height |-> end_height, start_height |-> start_height,
                        description |-> description]
       IN  IF error # "ok"
           THEN /\ glast' = GovError("create_poll", sender, 0, "", 0, None, 0, error)
                /\ UNCHANGED <<state, polls>>
           ELSE /\ state' = [state EXCEPT !.poll_count = poll_id]
                /\ polls' = save(polls, state.poll_count, new_poll)
                /\ glast' = GovMsg("create_poll", sender, poll_id, "", 0, None, 0, "ok",
                                   FALSE, "", <<>>)
    /\ UNCHANGED <<bank, poll_voter_info, locked_tokens, height>>

\* create_poll saving the poll counter before it validates the message
create_poll_counted(sender, quorum_percentage, description, start_height, end_height) ==
    /\ LET error == IF validate_quorum_percentage(quorum_percentage) # "ok"
                    THEN validate_quorum_percentage(quorum_percentage)
                    ELSE validate_description(description)
           poll_id == state.poll_count + 1
           new_poll == [creator |-> sender, status |-> "InProgress",
                        quorum_percentage |-> quorum_percentage,
                        yes_votes |-> 0, no_votes |-> 0,
                        voters |-> <<>>, voter_info |-> <<>>,
                        end_height |-> end_height, start_height |-> start_height,
                        description |-> description]
       IN  IF error # "ok"
           THEN /\ glast' = GovError("create_poll", sender, 0, "", 0, None, 0, error)
                /\ state' = [state EXCEPT !.poll_count = poll_id]
                /\ UNCHANGED polls
           ELSE /\ state' = [state EXCEPT !.poll_count = poll_id]
                /\ polls' = save(polls, poll_id, new_poll)
                /\ glast' = GovMsg("create_poll", sender, poll_id, "", 0, None, 0, "ok",
                                   FALSE, "", <<>>)
    /\ UNCHANGED <<bank, poll_voter_info, locked_tokens, height>>

create_poll(sender, quorum_percentage, description, start_height, end_height) ==
    /\ LET error == IF validate_quorum_percentage(quorum_percentage) # "ok"
                    THEN validate_quorum_percentage(quorum_percentage)
                    ELSE validate_description(description)
           poll_id == state.poll_count + 1
           new_poll == [creator |-> sender, status |-> "InProgress",
                        quorum_percentage |-> quorum_percentage,
                        yes_votes |-> 0, no_votes |-> 0,
                        voters |-> <<>>, voter_info |-> <<>>,
                        end_height |-> end_height, start_height |-> start_height,
                        description |-> description]
       IN  IF error # "ok"
           THEN /\ glast' = GovError("create_poll", sender, 0, "", 0, None, 0, error)
                /\ UNCHANGED <<state, polls>>
           ELSE /\ state' = [state EXCEPT !.poll_count = poll_id]
                /\ polls' = save(polls, poll_id, new_poll)
                /\ glast' = GovMsg("create_poll", sender, poll_id, "", 0, None, 0, "ok",
                                   FALSE, "", <<>>)
    /\ UNCHANGED <<bank, poll_voter_info, locked_tokens, height>>

RECURSIVE sum_votes(_, _)
\* end_poll's loop: the weight of the votes labelled "yes" (yes = TRUE) or
\* of all the others (yes = FALSE)
sum_votes(voter_info, yes) ==
    IF voter_info = <<>> THEN 0
    ELSE (IF (Head(voter_info).vote = "yes") = yes THEN Head(voter_info).weight ELSE 0)
         + sum_votes(Tail(voter_info), yes)

\* the quorum with the multiplication before the division
quorum_u8_scaled(tallied_weight, staked_weight) ==
    ((tallied_weight * 100) \div staked_weight) % 256

\* ((tallied_weight / staked_weight) * 100) as u8
quorum_u8(tallied_weight, staked_weight) ==
    ((tallied_weight \div staked_weight) * 100) % 256

RECURSIVE unlock_voters(_, _, _)
\* end_poll's second loop: zero saved in locked_tokens for every voter of the poll
unlock_voters(voters, poll_id, bucket) ==
    IF voters = <<>> THEN bucket
    ELSE unlock_voters(Tail(voters), poll_id,
                       save(bucket, get_poll_voter_key(poll_id, Head(voters)), 0))

\* the voting period with a poll that cannot be ended at its end_height
voting_period_strict(a_poll, block_height) ==
    IF is_some(a_poll.start_height) /\ unwrap(a_poll.start_height) > block_height
    THEN "Voting period has not started."
    ELSE IF is_some(a_poll.end_height) /\ unwrap(a_poll.end_height) >= block_height
    THEN "Voting period has not expired."
    ELSE "ok"

\* end_poll's tests of the poll's heights against env.block.height (lines
\* 277-283): "ok" or the error's message
voting_period(a_poll, block_height) ==
    IF is_some(a_poll.start_height) /\ unwrap(a_poll.start_height) > block_height
    THEN "Voting period has not started."
    ELSE IF is_some(a_poll.end_height) /\ unwrap(a_poll.end_height) > block_height
    THEN "Voting period has not expired."
    ELSE "ok"

\* end_poll's resolution of a tally (lines 296-324): passed and the rejected
\* reason, or the panic of the division when votes were tallied and the
\* querier reports a balance of zero
end_poll_outcome(yes, no, quorum_percentage, staked_weight) ==
    LET tallied_weight == yes + no
    IN  IF tallied_weight > 0
        THEN IF staked_weight = 0
             THEN [result |-> "panic: attempt to divide by zero",
                   passed |-> FALSE, rejected_reason |-> ""]
             ELSE LET quorum == quorum_u8(tallied_weight, staked_weight)
                  IN  IF quorum < quorum_percentage
                      THEN [result |-> "ok", passed |-> FALSE,
                            rejected_reason |-> "Quorum not reached"]
                      ELSE IF yes > tallied_weight \div 2
                      THEN [result |-> "ok", passed |-> TRUE, rejected_reason |-> ""]
                      ELSE [result |-> "ok", passed |-> FALSE,
                            rejected_reason |-> "Threshold not reached"]
        ELSE [result |-> "ok", passed |-> FALSE, rejected_reason |-> "Quorum not reached"]

\* end_poll leaving the poll at the intermediate status
end_poll_status_tally(passed) == "Tally"

\* the status end_poll saves: line 325 assigns poll_status, which line 298
\* binds to Rejected, after line 317 has assigned Passed
end_poll_status(passed) == "Rejected"

\* end_poll without the test of the creator
end_poll_by_anyone(sender, poll_id, staked_weight) ==
    LET fail(message) ==
            /\ glast' = GovError("end_poll", sender, poll_id, "", 0, None, 0, message)
            /\ UNCHANGED <<state, bank, polls, poll_voter_info, locked_tokens, height>>
        abort(message) ==
            /\ glast' = GovError("end_poll", sender, poll_id, "", 0, None, staked_weight,
                                 message)
            /\ UNCHANGED <<state, bank, polls, poll_voter_info, locked_tokens, height>>
    IN  IF ~may_load(polls, poll_id) THEN fail("Poll does not exist")
        ELSE LET a_poll == polls[poll_id]
                 yes == sum_votes(a_poll.voter_info, TRUE)
                 no == sum_votes(a_poll.voter_info, FALSE)
                 tallied_weight == yes + no
             IN  IF a_poll.status # "InProgress" THEN fail("Poll is not in progress")
                 ELSE IF voting_period(a_poll, height) # "ok"
                 THEN fail(voting_period(a_poll, height))
                 ELSE LET outcome == end_poll_outcome(yes, no, a_poll.quorum_percentage,
                                                      staked_weight)
                          passed == outcome.passed
                          rejected_reason == outcome.rejected_reason
                      IN  IF outcome.result # "ok" THEN abort(outcome.result)
                          ELSE
                          /\ polls' = save(polls, poll_id,
                                           [a_poll EXCEPT !.status = end_poll_status(passed)])
                          /\ locked_tokens' = unlock_voters(a_poll.voters, poll_id,
                                                            locked_tokens)
                          /\ glast' = GovMsg("end_poll", sender, poll_id, "", 0, None,
                                             IF tallied_weight > 0 THEN staked_weight ELSE 0,
                                             "ok", passed, rejected_reason, <<>>)
                          /\ UNCHANGED <<state, bank, poll_voter_info, height>>

end_poll(sender, poll_id, staked_weight) ==
    LET fail(message) ==
            /\ glast' = GovError("end_poll", sender, poll_id, "", 0, None, 0, message)
            /\ UNCHANGED <<state, bank, polls, poll_voter_info, locked_tokens, height>>
        abort(message) ==
            /\ glast' = GovError("end_poll", sender, poll_id, "", 0, None, staked_weight,
                                 message)
            /\ UNCHANGED <<state, bank, polls, poll_voter_info, locked_tokens, height>>
    IN  IF ~may_load(polls, poll_id) THEN fail("Poll does not exist")
        ELSE LET a_poll == polls[poll_id]
                 yes == sum_votes(a_poll.voter_info, TRUE)
                 no == sum_votes(a_poll.voter_info, FALSE)
                 tallied_weight == yes + no
             IN  IF a_poll.creator # sender THEN fail("User is not the creator of the poll.")
                 ELSE IF a_poll.status # "InProgress" THEN fail("Poll is not in progress")
                 ELSE IF voting_period(a_poll, height) # "ok"
                 THEN fail(voting_period(a_poll, height))
                 ELSE LET outcome == end_poll_outcome(yes, no, a_poll.quorum_percentage,
                                                      staked_weight)
                          passed == outcome.passed
                          rejected_reason == outcome.rejected_reason
                      IN  IF outcome.result # "ok" THEN abort(outcome.result)
                          ELSE
                          /\ polls' = save(polls, poll_id,
                                           [a_poll EXCEPT !.status = end_poll_status(passed)])
                          /\ locked_tokens' = unlock_voters(a_poll.voters, poll_id,
                                                            locked_tokens)
                          /\ glast' = GovMsg("end_poll", sender, poll_id, "", 0, None,
                                             IF tallied_weight > 0 THEN staked_weight ELSE 0,
                                             "ok", passed, rejected_reason, <<>>)
                          /\ UNCHANGED <<state, bank, poll_voter_info, height>>

\* has_voted looking at the first voter only
has_voted_first(voter, a_poll) == a_poll.voters # <<>> /\ a_poll.voters[1] = voter

\* a_poll.voters.contains(voter)
has_voted(voter, a_poll) == \E i \in 1..Len(a_poll.voters) : a_poll.voters[i] = voter

\* cast_vote without the test of the staked balance
cast_vote_any_weight(sender, poll_id, vote, weight) ==
    LET fail(message) ==
            /\ glast' = GovError("cast_vote", sender, poll_id, vote, weight, None, 0, message)
            /\ UNCHANGED <<state, bank, polls, poll_voter_info, locked_tokens, height>>
    IN  IF ~may_load(polls, poll_id) THEN fail("Poll does not exist")
        ELSE LET a_poll == polls[poll_id]
                 token_manager == load_token_manager(sender)
                 voter_info == [vote |-> vote, weight |-> weight]
             IN  IF a_poll.status # "InProgress" THEN fail("Poll is not in progress")
                 ELSE IF has_voted(sender, a_poll) THEN fail("User has already voted.")
                 ELSE /\ poll_voter_info' = save(poll_voter_info,
                                                 get_poll_voter_key(poll_id, sender),
                                                 voter_info)
                      /\ polls' = save(polls, poll_id,
                                       [a_poll EXCEPT !.voters = Append(@, sender),
                                                      !.voter_info = Append(@, voter_info)])
                      /\ bank' = save(bank, sender,
                                      [token_manager EXCEPT
                                           !.participated_polls = Append(@, poll_id)])
                      /\ glast' = GovMsg("cast_vote", sender, poll_id, vote, weight, None, 0,
                                         "ok", FALSE, "", <<>>)
                      /\ UNCHANGED <<state, locked_tokens, height>>

\* cast_vote saving the stake account without the poll id
cast_vote_unlisted(sender, poll_id, vote, weight) ==
    LET fail(message) ==
            /\ glast' = GovError("cast_vote", sender, poll_id, vote, weight, None, 0, message)
            /\ UNCHANGED <<state, bank, polls, poll_voter_info, locked_tokens, height>>
    IN  IF ~may_load(polls, poll_id) THEN fail("Poll does not exist")
        ELSE LET a_poll == polls[poll_id]
                 token_manager == load_token_manager(sender)
                 voter_info == [vote |-> vote, weight |-> weight]
             IN  IF a_poll.status # "InProgress" THEN fail("Poll is not in progress")
                 ELSE IF has_voted(sender, a_poll) THEN fail("User has already voted.")
                 ELSE IF token_manager.token_balance < weight
                 THEN fail("User does not have enough staked tokens.")
                 ELSE /\ poll_voter_info' = save(poll_voter_info,
                                                 get_poll_voter_key(poll_id, sender),
                                                 voter_info)
                      /\ polls' = save(polls, poll_id,
                                       [a_poll EXCEPT !.voters = Append(@, sender),
                                                      !.voter_info = Append(@, voter_info)])
                      /\ bank' = save(bank, sender,
                                      [token_manager EXCEPT
                                           !.participated_polls = @])
                      /\ glast' = GovMsg("cast_vote", sender, poll_id, vote, weight, None, 0,
                                         "ok", FALSE, "", <<>>)
                      /\ UNCHANGED <<state, locked_tokens, height>>

\* cast_vote taking the weight out of the staked balance
cast_vote_deducting(sender, poll_id, vote, weight) ==
    LET fail(message) ==
            /\ glast' = GovError("cast_vote", sender, poll_id, vote, weight, None, 0, message)
            /\ UNCHANGED <<state, bank, polls, poll_voter_info, locked_tokens, height>>
    IN  IF ~may_load(polls, poll_id) THEN fail("Poll does not exist")
        ELSE LET a_poll == polls[poll_id]
                 token_manager == load_token_manager(sender)
                 voter_info == [vote |-> vote, weight |-> weight]
             IN  IF a_poll.status # "InProgress" THEN fail("Poll is not in progress")
                 ELSE IF has_voted(sender, a_poll) THEN fail("User has already voted.")
                 ELSE IF token_manager.token_balance < weight
                 THEN fail("User does not have enough staked tokens.")
                 ELSE /\ poll_voter_info' = save(poll_voter_info,
                                                 get_poll_voter_key(poll_id, sender),
                                                 voter_info)
                      /\ polls' = save(polls, poll_id,
                                       [a_poll EXCEPT !.voters = Append(@, sender),
                                                      !.voter_info = Append(@, voter_info)])
                      /\ bank' = save(bank, sender,
                                      [token_manager EXCEPT
                                           !.token_balance = @ - weight,
                                           !.participated_polls = Append(@, poll_id)])
                      /\ glast' = GovMsg("cast_vote", sender, poll_id, vote, weight, None, 0,
                                         "ok", FALSE, "", <<>>)
                      /\ UNCHANGED <<state, locked_tokens, height>>

cast_vote(sender, poll_id, vote, weight) ==
    LET fail(message) ==
            /\ glast' = GovError("cast_vote", sender, poll_id, vote, weight, None, 0, message)
            /\ UNCHANGED <<state, bank, polls, poll_voter_info, locked_tokens, height>>
    IN  IF ~may_load(polls, poll_id) THEN fail("Poll does not exist")
        ELSE LET a_poll == polls[poll_id]
                 token_manager == load_token_manager(sender)
                 voter_info == [vote |-> vote, weight |-> weight]
             IN  IF a_poll.status # "InProgress" THEN fail("Poll is not in progress")
                 ELSE IF has_voted(sender, a_poll) THEN fail("User has already voted.")
                 ELSE IF token_manager.token_balance < weight
                 THEN fail("User does not have enough staked tokens.")
                 ELSE /\ poll_voter_info' = save(poll_voter_info,
                                                 get_poll_voter_key(poll_id, sender),
                                                 voter_info)
                      /\ polls' = save(polls, poll_id,
                                       [a_poll EXCEPT !.voters = Append(@, sender),
                                                      !.voter_info = Append(@, voter_info)])
                      /\ bank' = save(bank, sender,
                                      [token_manager EXCEPT
                                           !.participated_polls = Append(@, poll_id)])
                      /\ glast' = GovMsg("cast_vote", sender, poll_id, vote, weight, None, 0,
                                         "ok", FALSE, "", <<>>)
                      /\ UNCHANGED <<state, locked_tokens, height>>

\* voting init: poll_count 0, staked_tokens zero, every bucket empty
GovInit ==
    /\ state = [poll_count |-> 0, staked_tokens |-> 0]
    /\ bank = <<>>
    /\ polls = <<>>
    /\ poll_voter_info = <<>>
    /\ locked_tokens = <<>>
    /\ height = 1
    /\ glast = GovError("init", NoAddr, 0, "", 0, None, 0, "ok")

\* ------------------------------------------------------ the inputs of the model
SentFunds ==
    { <<>>,
      <<coin(9, VOTING_TOKEN)>>,
      <<coin(10, VOTING_TOKEN)>>,
      <<coin(10, "play money")>> }

WithdrawAmounts == { None, Some(10) }

QuorumPercentages == {0, 50, 101}

Descriptions ==
    { <<"a", "b">>,
      <<"t", "e", "s", "t">>,
      <<"t", "E", "s", "t">>,
      [i \in 1..(MAX_DESC_LENGTH + 1) |-> "a"] }

Votes == {"yes", "no", "YES"}

Weights == {1, 10}

\* the answers of the querier: the contract's balance of the voting token
StakedWeights == {0, 3, 10}

\* the stake a successful stake_voting_tokens would leave the sender with
StakeAfter(sender, sent_funds) ==
    IF assert_sent_sufficient_coin(sent_funds, coin(MIN_STAKE_AMOUNT, VOTING_TOKEN))
    THEN load_token_manager(sender).token_balance + find_voting_token(sent_funds).amount
    ELSE 0

\* ------------------------------------------------ the steps of the governance
\* two accounts that stake, vote and withdraw on a single poll without a
\* voting window; the ledger contract is left as it is
StakeVotingTokens ==
    \E sender \in Addr, sent_funds \in SentFunds :
        /\ StakeAfter(sender, sent_funds) <= MaxStake
        /\ stake_voting_tokens(sender, sent_funds)
        /\ UNCHANGED <<ledger_vars, tally, raw>>

WithdrawVotingTokens ==
    \E sender \in Addr, amount \in WithdrawAmounts :
        withdraw_voting_tokens(sender, amount) /\ UNCHANGED <<ledger_vars, tally, raw>>

CreatePoll ==
    \E sender \in Addr, q \in QuorumPercentages, d \in Descriptions :
        /\ polls = <<>>
        /\ create_poll(sender, q, d, None, None)
        /\ UNCHANGED <<ledger_vars, tally, raw>>

CastVote ==
    \E sender \in Addr, poll_id \in {1, 2}, vote \in Votes, weight \in Weights :
        cast_vote(sender, poll_id, vote, weight) /\ UNCHANGED <<ledger_vars, tally, raw>>

EndPoll ==
    \E sender \in Addr, poll_id \in {1, 2}, staked_weight \in StakedWeights :
        end_poll(sender, poll_id, staked_weight) /\ UNCHANGED <<ledger_vars, tally, raw>>

GovNext ==
    \/ StakeVotingTokens
    \/ WithdrawVotingTokens
    \/ CreatePoll
    \/ CastVote
    \/ EndPoll

\* one account, a1, that stakes, votes and withdraws, on up to MaxPolls polls
\* created and ended by either account
LockStakeVotingTokens ==
    \E sent_funds \in SentFunds :
        /\ StakeAfter("a1", sent_funds) <= MaxStake
        /\ stake_voting_tokens("a1", sent_funds)
        /\ UNCHANGED <<ledger_vars, tally, raw>>

LockWithdrawVotingTokens ==
    \E sender \in Addr, amount \in WithdrawAmounts :
        withdraw_voting_tokens(sender, amount) /\ UNCHANGED <<ledger_vars, tally, raw>>

LockCreatePoll ==
    \E sender \in Addr :
        /\ state.poll_count < MaxPolls
        /\ create_poll(sender, 50, <<"t", "e", "s", "t">>, None, None)
        /\ UNCHANGED <<ledger_vars, tally, raw>>

LockCastVote ==
    \E poll_id \in 1..MaxPolls, weight \in Weights :
        cast_vote("a1", poll_id, "yes", weight) /\ UNCHANGED <<ledger_vars, tally, raw>>

LockEndPoll ==
    \E sender \in Addr, poll_id \in 1..MaxPolls :
        end_poll(sender, poll_id, 10) /\ UNCHANGED <<ledger_vars, tally, raw>>

LockNext ==
    \/ LockStakeVotingTokens
    \/ LockWithdrawVotingTokens
    \/ LockCreatePoll
    \/ LockCastVote
    \/ LockEndPoll

\* polls with a voting window, created and ended by either account while the
\* block height goes from 1 to MaxHeight; nobody stakes or votes
PollQuorums == {100, 101, 255}

\* start_height and end_height of the polls created
PollWindows ==
    { <<None, None>>, <<Some(2), None>>, <<None, Some(2)>>, <<Some(2), Some(3)>> }

PollCreatePoll ==
    \E sender \in Addr, q \in PollQuorums, d \in Descriptions, w \in PollWindows :
        /\ state.poll_count < MaxPolls
        /\ create_poll(sender, q, d, w[1], w[2])
        /\ UNCHANGED <<ledger_vars, tally, raw>>

PollEndPoll ==
    \E sender \in Addr, poll_id \in 0..MaxPolls :
        end_poll(sender, poll_id, 10) /\ UNCHANGED <<ledger_vars, tally, raw>>

\* the chain produces a block: the next message sees the next height
NextBlock ==
    /\ height < MaxHeight
    /\ height' = height + 1
    /\ UNCHANGED <<state, bank, polls, poll_voter_info, locked_tokens, glast>>
    /\ UNCHANGED <<ledger_vars, tally, raw>>

PollNext ==
    \/ PollCreatePoll
    \/ PollEndPoll
    \/ NextBlock

\* ------------------------------- votes on polls with a voting window, in time
\* stake, polls created with a start_height and an end_height, votes, and
\* the passing of blocks between the messages
WindowStakeVotingTokens ==
    \E sender \in Addr, sent_funds \in SentFunds :
        /\ StakeAfter(sender, sent_funds) <= MaxStake
        /\ stake_voting_tokens(sender, sent_funds)
        /\ UNCHANGED <<ledger_vars, tally, raw>>

WindowCreatePoll ==
    \E sender \in Addr, q \in PollQuorums, d \in Descriptions, w \in PollWindows :
        /\ polls = <<>>
        /\ create_poll(sender, q, d, w[1], w[2])
        /\ UNCHANGED <<ledger_vars, tally, raw>>

WindowCastVote ==
    \E sender \in Addr, poll_id \in {1, 2}, vote \in Votes, weight \in Weights :
        cast_vote(sender, poll_id, vote, weight) /\ UNCHANGED <<ledger_vars, tally, raw>>

WindowNextBlock ==
    NextBlock

WindowNext ==
    \/ WindowStakeVotingTokens
    \/ WindowCreatePoll
    \/ WindowCastVote
    \/ WindowNextBlock

\* ------------------------------------------------------ the steps of the ledger
\* the governance contract is left as its init left it
InitLedger ==
    \E sender \in Addr, n \in NameLens, sym \in Symbols, d \in Decimals,
       rows \in InitialBalances :
        erc20_init(sender, n, sym, d, rows) /\ UNCHANGED <<gov_vars, tally, raw>>

Transfer ==
    \E sender \in Addr, recipient \in Addr, amount \in AmountStrings :
        try_transfer(sender, recipient, amount) /\ UNCHANGED <<gov_vars, tally, raw>>

TransferFrom ==
    \E sender \in Addr, owner \in Addr, recipient \in Addr, amount \in AmountStrings :
        try_transfer_from(sender, owner, recipient, amount) /\ UNCHANGED <<gov_vars, tally, raw>>

Approve ==
    \E sender \in Addr, spender \in Addr, amount \in AmountStrings :
        try_approve(sender, spender, amount) /\ UNCHANGED <<gov_vars, tally, raw>>

Burn ==
    \E sender \in Addr, amount \in AmountStrings :
        try_burn(sender, amount) /\ UNCHANGED <<gov_vars, tally, raw>>

Mint ==
    \E sender \in Addr, recipient \in Addr, amount \in AmountStrings :
        try_mint(sender, recipient, amount) /\ UNCHANGED <<gov_vars, tally, raw>>

LedgerNext ==
    \/ InitLedger
    \/ Transfer
    \/ TransferFrom
    \/ Approve
    \/ Burn
    \/ Mint

\* ------------------------------------------- the resolution of a tally alone
\* the arguments end_poll's resolution is applied to: the yes and no weights
\* of the loop, a quorum_percentage (u8) and the querier's staked balance
TallyWeights == {0, 1, 2, 3, 10}
TallyQuorums == {0, 1, 30, 50, 100}
TallyStaked == {0, 1, 3, 10, 1000}

NoOutcome == [result |-> "none", passed |-> FALSE, rejected_reason |-> ""]

NoTally == [yes |-> 0, no |-> 0, quorum_percentage |-> 0, staked_weight |-> 0,
            done |-> TRUE, outcome |-> NoOutcome]

TallyInputs ==
    { [yes |-> y, no |-> n, quorum_percentage |-> q, staked_weight |-> s,
       done |-> FALSE, outcome |-> NoOutcome] :
          y \in TallyWeights, n \in TallyWeights, q \in TallyQuorums, s \in TallyStaked }

ResolveTally ==
    /\ ~tally.done
    /\ tally' = [tally EXCEPT !.done = TRUE,
                              !.outcome = end_poll_outcome(tally.yes, tally.no,
                                                           tally.quorum_percentage,
                                                           tally.staked_weight)]
    /\ UNCHANGED <<ledger_vars, gov_vars, raw>>

\* both contracts as they are before their first message
Start == LedgerInit /\ GovInit /\ tally = NoTally /\ raw = NoRaw

TallyStart == LedgerInit /\ GovInit /\ tally \in TallyInputs /\ raw = NoRaw

PollSpec == Start /\ [][PollNext]_vars

\* end_poll's resolution applied once to each of the arguments
TallySpec == TallyStart /\ [][ResolveTally]_vars

\* the ledger alone
LedgerSpec == Start /\ [][LedgerNext]_vars

\* the governance contract alone
GovSpec == Start /\ [][GovNext]_vars

LockSpec == Start /\ [][LockNext]_vars

WindowSpec == Start /\ [][WindowNext]_vars

AccessorStart == LedgerInit /\ GovInit /\ tally = NoTally /\ raw \in AccessorInputs

\* one key of a store, set and read
AccessorSpec == AccessorStart /\ [][AccessorNext]_vars

\* ====================================================================
\* governance claims
\* ====================================================================
InVoters(voter, a_poll) == \E i \in 1..Len(a_poll.voters) : a_poll.voters[i] = voter

NoDuplicateVoters ==
    \A id \in DOMAIN polls :
        \A i, j \in 1..Len(polls[id].voters) :
            i # j => polls[id].voters[i] # polls[id].voters[j]

\* C6 (as stated): each account appears at most once in a poll's voter list,
\* and every castVote by an account already in the poll's voter list fails
\* with "User has already voted." without adding a vote record or changing
\* any weight.
C6_AlwaysAlreadyVoted ==
    /\ []NoDuplicateVoters
    /\ [][(/\ glast'.op = "cast_vote"
           /\ glast'.poll_id \in DOMAIN polls
           /\ InVoters(glast'.sender, polls[glast'.poll_id])) =>
              /\ glast'.result = "User has already voted."
              /\ UNCHANGED <<state, bank, polls, poll_voter_info, locked_tokens>>]_vars

\* C6 (amended): each account appears at most once in a poll's voter list,
\* and a castVote by an account already in the poll's voter list always
\* fails without adding a vote record or changing any stored weight: with
\* "User has already voted." while the poll is in progress, and with "Poll is
\* not in progress" once the poll has ended.
C6_NoDoubleVoting ==
    /\ []NoDuplicateVoters
    /\ [][(/\ glast'.op = "cast_vote"
           /\ glast'.poll_id \in DOMAIN polls
           /\ InVoters(glast'.sender, polls[glast'.poll_id])) =>
              /\ glast'.result # "ok"
              /\ glast'.result =
                     IF polls[glast'.poll_id].status = "InProgress"
                     THEN "User has already voted." ELSE "Poll is not in progress"
              /\ UNCHANGED <<state, bank, polls, poll_voter_info, locked_tokens>>]_vars

\* a second vote of an account has been refused on a poll both accounts
\* have voted on
C6_Witness ==
    /\ glast.op = "cast_vote" /\ glast.result = "User has already voted."
    /\ InVoters(glast.sender, polls[glast.poll_id])
    /\ Len(polls[glast.poll_id].voters) = 2
    /\ Len(polls[glast.poll_id].voter_info) = 2

\* the amount a withdraw message asks for: all of the balance when omitted
RequestedAmount(amount, voter) ==
    IF is_some(amount) THEN unwrap(amount) ELSE bank[voter].token_balance

\* C7: withdraw by the holder of a stake account never succeeds when
\* lockedAmount(caller) + amount exceeds the caller's staked balance: it fails
\* with "User is trying to withdraw too many tokens." and the caller's staked
\* balance and the aggregate staked counter stay as they were; a successful
\* withdraw is one of an account holder within that bound.
C7_WithdrawalBound ==
    [][glast'.op = "withdraw" =>
        /\ (/\ may_load(bank, glast'.sender)
            /\ locked_amount(glast'.sender)
                   + RequestedAmount(glast'.amount, glast'.sender)
                   > bank[glast'.sender].token_balance) =>
               /\ glast'.result = "User is trying to withdraw too many tokens."
               /\ bank' = bank
               /\ state' = state
        /\ glast'.result = "ok" =>
               /\ may_load(bank, glast'.sender)
               /\ locked_amount(glast'.sender)
                      + RequestedAmount(glast'.amount, glast'.sender)
                      <= bank[glast'.sender].token_balance]_vars

\* a withdrawal of 10 of a staked 10 has been refused because of a vote of
\* weight 1
C7_Witness ==
    /\ glast.op = "withdraw"
    /\ glast.result = "User is trying to withdraw too many tokens."
    /\ glast.amount = Some(10)
    /\ bank[glast.sender].token_balance = 10
    /\ locked_amount(glast.sender) = 1

OnlyEndedPolls(voter) ==
    \A i \in 1..Len(bank[voter].participated_polls) :
        polls[bank[voter].participated_polls[i]].status # "InProgress"

\* C8: once endPoll has succeeded, the weight committed to that poll no
\* longer counts toward lockedAmount: a voter whose only votes are on ended
\* polls has lockedAmount 0 and can withdraw all of its staked balance.
C8_EndPollReleasesLocks ==
    \A voter \in DOMAIN bank :
        OnlyEndedPolls(voter) =>
            /\ locked_amount(voter) = 0
            /\ (glast.op = "withdraw" /\ glast.sender = voter /\ glast.amount = None)
                   => glast.result = "ok"

\* C9: after a successful endPoll the stored status is Passed when the
\* response reports passed = true and Rejected when it reports passed = false.
C9_StoredStatusMatchesOutcome ==
    (glast.op = "end_poll" /\ glast.result = "ok") =>
        polls[glast.poll_id].status = IF glast.passed THEN "Passed" ELSE "Rejected"

\* C10: for a successful endPoll with tallied > 0 and
\* quorum = (tallied div staked) * 100: rejected with "Quorum not reached" if
\* quorum < quorum_percentage, otherwise passed with an empty reason if
\* yes > tallied div 2, otherwise rejected with "Threshold not reached"; the
\* reason is empty exactly when passed is true.
C10_TallyRule ==
    (glast.op = "end_poll" /\ glast.result = "ok") =>
        LET a_poll == polls[glast.poll_id]
            yes == sum_votes(a_poll.voter_info, TRUE)
            no == sum_votes(a_poll.voter_info, FALSE)
            tallied == yes + no
            quorum == (tallied \div glast.staked_weight) * 100
        IN  tallied > 0 =>
                /\ IF quorum < a_poll.quorum_percentage
                   THEN ~glast.passed /\ glast.rejected_reason = "Quorum not reached"
                   ELSE IF yes > tallied \div 2
                   THEN glast.passed /\ glast.rejected_reason = ""
                   ELSE ~glast.passed /\ glast.rejected_reason = "Threshold not reached"
                /\ (glast.rejected_reason = "") <=> glast.passed

EndedYes == sum_votes(polls[glast.poll_id].voter_info, TRUE)
EndedNo == sum_votes(polls[glast.poll_id].voter_info, FALSE)
EndedTallied == EndedYes + EndedNo

\* C13: quorum is a minimum percentage of the staked total: a poll with
\* tallied > 0 and tallied * 100 >= quorum_percentage * staked is never
\* rejected with "Quorum not reached"; the threshold rule alone resolves it.
C13_QuorumIsPercentage ==
    (/\ glast.op = "end_poll" /\ glast.result = "ok"
     /\ EndedTallied > 0
     /\ EndedTallied * 100 >= polls[glast.poll_id].quorum_percentage * glast.staked_weight) =>
        /\ glast.rejected_reason # "Quorum not reached"
        /\ glast.passed <=> EndedYes > EndedTallied \div 2
        /\ glast.rejected_reason = IF glast.passed THEN "" ELSE "Threshold not reached"

\* C14: createPoll with a valid description succeeds for every
\* quorum_percentage in 0..100, 0 included, and stores the poll with that
\* quorum_percentage.
C14_CreatePollQuorumRange ==
    [][\A sender \in Addr, q \in {x \in QuorumPercentages : 0 <= x /\ x <= 100},
          d \in Descriptions :
          (validate_description(d) = "ok" /\ create_poll(sender, q, d, None, None)) =>
              /\ glast'.result = "ok"
              /\ may_load(polls', glast'.poll_id)
              /\ polls'[glast'.poll_id].quorum_percentage = q]_vars

\* C15: a poll created with quorum_percentage = 0 on which a single yes vote
\* of weight 1 is cast ends passed with an empty rejection reason: createPoll
\* stores the poll with quorum 0, and with quorum 0 every endPoll with
\* tallied > 0 and yes > tallied div 2 reports passed, however large the
\* staked total.
C15_ZeroQuorumPasses ==
    [][/\ \A sender \in Addr, d \in Descriptions :
              (validate_description(d) = "ok" /\ create_poll(sender, 0, d, None, None)) =>
                  /\ glast'.result = "ok"
                  /\ may_load(polls', glast'.poll_id)
                  /\ polls'[glast'.poll_id].quorum_percentage = 0
       /\ (/\ glast'.op = "end_poll" /\ glast'.result = "ok"
           /\ polls[glast'.poll_id].quorum_percentage = 0
           /\ sum_votes(polls[glast'.poll_id].voter_info, TRUE)
                  + sum_votes(polls[glast'.poll_id].voter_info, FALSE) > 0
           /\ sum_votes(polls[glast'.poll_id].voter_info, TRUE) >
                  (sum_votes(polls[glast'.poll_id].voter_info, TRUE)
                     + sum_votes(polls[glast'.poll_id].voter_info, FALSE)) \div 2) =>
              (glast'.passed /\ glast'.rejected_reason = "")]_vars

\* ====================================================================
\* polls: creation, ending, lifecycle
\* ====================================================================
\* the characters a description may hold: lowercase letters, digits, '.',
\* '-', '_' and space
DescriptionChars ==
    {"a", "b", "c", "d", "e", "f", "g", "h", "i", "j", "k", "l", "m", "n", "o", "p",
     "q", "r", "s", "t", "u", "v", "w", "x", "y", "z",
     "0", "1", "2", "3", "4", "5", "6", "7", "8", "9", ".", "-", "_", " "}

BadDescription(d) ==
    \/ Len(d) < 3
    \/ Len(d) > 64
    \/ \E i \in 1..Len(d) : d[i] \notin DescriptionChars

\* C16: createPoll with quorum_percentage > 100, or with a description
\* shorter than 3 or longer than 64 characters or holding a character outside
\* lowercase letters, digits, '.', '-', '_' and space, fails; no poll is stored
\* and the poll counter is unchanged.
C16_CreatePollRejects ==
    [][\A sender \in Addr, q \in PollQuorums, d \in Descriptions, w \in PollWindows :
          (create_poll(sender, q, d, w[1], w[2]) /\ (q > 100 \/ BadDescription(d))) =>
              /\ glast'.op = "create_poll"
              /\ glast'.result # "ok"
              /\ polls' = polls
              /\ state' = state]_vars

\* a description of 65 characters has been refused when one poll was stored
C16_Witness ==
    /\ glast.op = "create_poll"
    /\ glast.result = "Description too long"
    /\ state.poll_count = 1
    /\ DOMAIN polls = {1}

\* C17: endPoll on an existing poll by an account other than its creator
\* fails with "User is not the creator of the poll." and leaves the poll's
\* status, its votes and every lock as they were; so a poll's status leaves
\* InProgress only through a message sent by its creator.
C17_OnlyCreatorEnds ==
    [][/\ (/\ glast'.op = "end_poll"
           /\ glast'.poll_id \in DOMAIN polls
           /\ polls[glast'.poll_id].creator # glast'.sender) =>
              /\ glast'.result = "User is not the creator of the poll."
              /\ UNCHANGED <<state, bank, polls, poll_voter_info, locked_tokens>>
       /\ \A id \in DOMAIN polls :
              (polls[id].status = "InProgress" /\ polls'[id].status # "InProgress") =>
                  /\ glast'.op = "end_poll"
                  /\ glast'.poll_id = id
                  /\ glast'.sender = polls[id].creator]_vars

\* an endPoll of the other account has been refused on a poll in progress
\* that holds a vote
C17_Witness ==
    /\ glast.op = "end_poll"
    /\ glast.result = "User is not the creator of the poll."
    /\ polls[glast.poll_id].creator # glast.sender
    /\ polls[glast.poll_id].status = "InProgress"
    /\ Len(polls[glast.poll_id].voter_info) >= 1

NotStarted(a_poll) == is_some(a_poll.start_height) /\ unwrap(a_poll.start_height) > height

NotExpired(a_poll) == is_some(a_poll.end_height) /\ unwrap(a_poll.end_height) > height

\* C18: endPoll by the creator of a poll in progress fails with "Voting
\* period has not started." when the poll's start_height is set and greater
\* than the block height, and (the start being reached or not set) with
\* "Voting period has not expired." when its end_height is set and greater
\* than the block height; the poll stays InProgress.  Otherwise the height
\* does not block endPoll: not with no heights set, and not at a block
\* height equal to end_height.
C18_VotingPeriod ==
    [][(/\ height' = height
        /\ glast'.op = "end_poll"
        /\ glast'.poll_id \in DOMAIN polls
        /\ polls[glast'.poll_id].creator = glast'.sender
        /\ polls[glast'.poll_id].status = "InProgress") =>
           LET a_poll == polls[glast'.poll_id]
           IN  /\ NotStarted(a_poll) =>
                      /\ glast'.result = "Voting period has not started."
                      /\ polls' = polls
               /\ (NotExpired(a_poll) /\ ~NotStarted(a_poll)) =>
                      /\ glast'.result = "Voting period has not expired."
                      /\ polls' = polls
               /\ (~NotStarted(a_poll) /\ ~NotExpired(a_poll)) =>
                      /\ glast'.result = "ok"
                      /\ polls'[glast'.poll_id].status # "InProgress"]_vars

\* a poll has been ended at the block height that is its end_height
C18_Witness ==
    /\ glast.op = "end_poll" /\ glast.result = "ok"
    /\ polls[glast.poll_id].end_height = Some(height)

NeverTally ==
    \A id \in DOMAIN polls : polls[id].status \in {"InProgress", "Passed", "Rejected"}

\* what the lifecycle says of the poll id on every step, but for the message
\* of an endPoll refused on a poll that has ended
LifecycleStep(id) ==
    /\ polls'[id].status # polls[id].status =>
           /\ polls[id].status = "InProgress"
           /\ polls'[id].status \in {"Passed", "Rejected"}
           /\ glast'.op = "end_poll" /\ glast'.result = "ok" /\ glast'.poll_id = id
    /\ polls[id].status # "InProgress" =>
           /\ polls'[id] = polls[id]
           /\ (glast'.op \in {"end_poll", "cast_vote"} /\ glast'.poll_id = id) =>
                  glast'.result # "ok"
           /\ (glast'.op = "cast_vote" /\ glast'.poll_id = id) =>
                  glast'.result = "Poll is not in progress"

\* C19 (as stated): a poll's status changes only from InProgress to Passed or
\* Rejected and only by a successful endPoll; once terminal it never changes
\* again, every later endPoll and castVote on the poll fails with "Poll is
\* not in progress", its voter and vote lists stay frozen, and the status
\* Tally is never reached.
C19_EveryLaterEndPoll ==
    /\ []NeverTally
    /\ [][\A id \in DOMAIN polls :
              /\ LifecycleStep(id)
              /\ (/\ polls[id].status # "InProgress"
                  /\ glast'.op = "end_poll" /\ glast'.poll_id = id) =>
                     glast'.result = "Poll is not in progress"]_vars

\* C19 (amended): as stated, but for the message of a later endPoll: sent by
\* the poll's creator it fails with "Poll is not in progress", sent by any
\* other account with "User is not the creator of the poll.".
C19_PollLifecycle ==
    /\ []NeverTally
    /\ [][\A id \in DOMAIN polls :
              /\ LifecycleStep(id)
              /\ (/\ polls[id].status # "InProgress"
                  /\ glast'.op = "end_poll" /\ glast'.poll_id = id) =>
                     glast'.result = IF glast'.sender = polls[id].creator
                                     THEN "Poll is not in progress"
                                     ELSE "User is not the creator of the poll."]_vars

\* a vote has been refused on an ended poll that holds votes
C19_Witness ==
    /\ glast.op = "cast_vote" /\ glast.result = "Poll is not in progress"
    /\ polls[glast.poll_id].status = "Rejected"
    /\ Len(polls[glast.poll_id].voters) >= 1
    /\ ~InVoters(glast.sender, polls[glast.poll_id])

\* C20: poll ids are unique and sequential: the poll counter equals the
\* number of stored polls, whose ids are 1..counter (poll id 0 never exists);
\* the counter never decreases and moves only by one, on a successful
\* createPoll, which returns and stores the next id with status InProgress
\* and empty voter and vote lists; createPoll never overwrites a stored poll.
C20_SequentialPollIds ==
    /\ [](DOMAIN polls = 1..state.poll_count)
    /\ [][/\ state'.poll_count >= state.poll_count
          /\ state'.poll_count # state.poll_count =>
                 (glast'.op = "create_poll" /\ glast'.result = "ok")
          /\ (height' = height /\ glast'.op = "create_poll") =>
                 /\ \A id \in DOMAIN polls :
                        id \in DOMAIN polls' /\ polls'[id] = polls[id]
                 /\ glast'.result = "ok" =>
                        /\ glast'.poll_id = state.poll_count + 1
                        /\ state'.poll_count = glast'.poll_id
                        /\ glast'.poll_id \notin DOMAIN polls
                        /\ glast'.poll_id \in DOMAIN polls'
                        /\ polls'[glast'.poll_id].status = "InProgress"
                        /\ polls'[glast'.poll_id].voters = <<>>
                        /\ polls'[glast'.poll_id].voter_info = <<>>
                 /\ glast'.result # "ok" => state'.poll_count = state.poll_count]_vars

\* the second successful createPoll has returned poll id 2 after poll 1 was
\* ended
C20_Witness ==
    /\ glast.op = "create_poll" /\ glast.result = "ok" /\ glast.poll_id = 2
    /\ state.poll_count = 2
    /\ polls[1].status = "Rejected"
    /\ polls[2].status = "InProgress"

RECURSIVE LockedInOpenPolls(_, _)
\* the sum of the weights of voter's votes on the polls 1..id that are
\* InProgress
LockedInOpenPolls(voter, id) ==
    IF id = 0 THEN 0
    ELSE (IF /\ id \in DOMAIN polls
             /\ polls[id].status = "InProgress"
             /\ InVoters(voter, polls[id])
          THEN poll_voter_info[get_poll_voter_key(id, voter)].weight
          ELSE 0)
         + LockedInOpenPolls(voter, id - 1)

\* C21: in every reachable state each account's staked balance is at least
\* the sum of the weights the account has locked in InProgress polls.
C21_StakeCoversOpenLocks ==
    \A voter \in DOMAIN bank :
        bank[voter].token_balance >= LockedInOpenPolls(voter, state.poll_count)

\* the staked balance of an account: 0 without a stake account
StakedBalance(voter) == IF voter \in DOMAIN bank THEN bank[voter].token_balance ELSE 0

\* the result the castVote rules give, tested in their order
CastVoteExpected(sender, poll_id, weight) ==
    IF poll_id \notin DOMAIN polls THEN "Poll does not exist"
    ELSE IF polls[poll_id].status # "InProgress" THEN "Poll is not in progress"
    ELSE IF InVoters(sender, polls[poll_id]) THEN "User has already voted."
    ELSE IF StakedBalance(sender) < weight THEN "User does not have enough staked tokens."
    ELSE "ok"

\* C22: castVote fails with "Poll does not exist" if the poll id is absent,
\* otherwise "Poll is not in progress" if the poll is not InProgress,
\* otherwise "User has already voted." if the caller is in the voter list,
\* otherwise "User does not have enough staked tokens." if the caller's staked
\* balance (0 without a stake account) is below the weight; it succeeds, and
\* records the vote, in every other case, and a failed castVote has written
\* nothing.
C22_CastVoteErrors ==
    [][\A sender \in Addr, poll_id \in {1, 2}, vote \in Votes, weight \in Weights :
           cast_vote(sender, poll_id, vote, weight) =>
               LET expected == CastVoteExpected(sender, poll_id, weight)
               IN  /\ glast'.result = expected
                   /\ expected # "ok" =>
                          UNCHANGED <<state, bank, polls, poll_voter_info, locked_tokens>>
                   /\ expected = "ok" =>
                          /\ InVoters(sender, polls'[poll_id])
                          /\ polls'[poll_id].status = "InProgress"]_vars

\* a castVote of an account without a stake account was refused for its stake
\* on a poll in progress that another account has voted on
C22_Witness ==
    /\ glast.op = "cast_vote"
    /\ glast.result = "User does not have enough staked tokens."
    /\ glast.sender \notin DOMAIN bank
    /\ glast.poll_id \in DOMAIN polls
    /\ polls[glast.poll_id].status = "InProgress"
    /\ polls[glast.poll_id].voters # <<>>

RECURSIVE VotingAmount(_)
\* the funds attached in the voting denomination
VotingAmount(sent) ==
    IF sent = <<>> THEN 0
    ELSE (IF Head(sent).denom = VOTING_TOKEN THEN Head(sent).amount ELSE 0)
         + VotingAmount(Tail(sent))

C24_Withdraw ==
    [][\A sender \in Addr, amount \in WithdrawAmounts :
           withdraw_voting_tokens(sender, amount) =>
               IF sender \notin DOMAIN bank
               THEN /\ glast'.result = "Nothing staked"
                    /\ glast'.messages = <<>>
                    /\ UNCHANGED <<state, bank, polls, poll_voter_info, locked_tokens>>
               ELSE /\ glast'.result # "Nothing staked"
                    /\ glast'.result = "ok" =>
                           LET requested == RequestedAmount(amount, sender)
                           IN  /\ bank'[sender].token_balance =
                                      bank[sender].token_balance - requested
                               /\ state'.staked_tokens = state.staked_tokens - requested
                               /\ glast'.messages =
                                      <<[from_address |-> ContractAddr,
                                         to_address |-> sender,
                                         amount |-> <<coin(requested, VOTING_TOKEN)>>]>>
                               /\ \A other \in DOMAIN bank \ {sender} :
                                      bank'[other] = bank[other]]_vars

\* an account has withdrawn its whole stake of 20 with the amount omitted from
\* the message, the other account's stake staying in the contract
C24_Witness ==
    /\ glast.op = "withdraw" /\ glast.result = "ok" /\ glast.amount = None
    /\ glast.messages[1].amount = <<coin(2 * MIN_STAKE_AMOUNT, VOTING_TOKEN)>>
    /\ bank[glast.sender].token_balance = 0
    /\ state.staked_tokens = MIN_STAKE_AMOUNT

\* ====================================================================
\* the ledger with three accounts
\* ====================================================================
\* transfers and burns among three accounts of a ledger whose init has given
\* each of them a balance of 0..MaxBalance
Accounts == Addr \cup {"a3"}

AccountAmounts == AmountStrings \cup {<<"2">>}

\* the initial_balances of the init message: one row for each account
AccountRows ==
    { <<Row("a1", to_string(b1)), Row("a2", to_string(b2)), Row("a3", to_string(b3))>> :
          b1 \in 0..MaxBalance, b2 \in 0..MaxBalance, b3 \in 0..MaxBalance }

\* the ledger as a successful init, sent by a1, leaves it
AccountsInit ==
    \E rows \in AccountRows :
        LET r == init_balances(rows, [a \in Accounts |-> 0], 0)
        IN  /\ phase = "ready"
            /\ balances = r.store
            /\ total_supply = r.total
            /\ allowances = [o \in Accounts |-> [s \in Accounts |-> 0]]
            /\ constants = [name_len |-> 3, symbol |-> <<65, 66, 67>>, decimals |-> 18]
            /\ minter = "a1"
            /\ last = [op |-> "init", sender |-> "a1", owner |-> NoAddr, spender |-> NoAddr,
                       recipient |-> NoAddr, amount |-> <<>>, rows |-> rows,
                       result |-> "ok", prev_allowance |-> 0]

AccountsTransfer ==
    \E sender \in Accounts, recipient \in Accounts, amount \in AccountAmounts :
        try_transfer(sender, recipient, amount) /\ UNCHANGED <<gov_vars, tally, raw>>

AccountsBurn ==
    \E sender \in Accounts, amount \in AccountAmounts :
        try_burn(sender, amount) /\ UNCHANGED <<gov_vars, tally, raw>>

AccountsNext ==
    \/ AccountsTransfer
    \/ AccountsBurn

AccountsStart == AccountsInit /\ GovInit /\ tally = NoTally /\ raw = NoRaw

AccountsSpec == AccountsStart /\ [][AccountsNext]_vars

\* C25: transfer fails with the insufficient-funds error and changes no
\* balance when the sender's balance is below the amount; otherwise the
\* sender's balance decreases by the amount and the recipient's increases by
\* it, every other balance staying as it was; with amount 0, or with the
\* sender as recipient, every balance is the same after as before.
C25_Transfer ==
    [][\A sender \in Accounts, recipient \in Accounts, amount \in AccountAmounts :
           (try_transfer(sender, recipient, amount) /\ parse_u128(amount) # ParseError) =>
               LET n == parse_u128(amount)
               IN  IF balances[sender] < n
                   THEN /\ last'.result = "Insufficient funds"
                        /\ balances' = balances
                   ELSE /\ last'.result = "ok"
                        /\ recipient # sender =>
                               /\ balances'[sender] = balances[sender] - n
                               /\ balances'[recipient] = balances[recipient] + n
                        /\ \A other \in Accounts \ {sender, recipient} :
                               balances'[other] = balances[other]
                        /\ (n = 0 \/ recipient = sender) => balances' = balances
                        /\ DOMAIN balances' = DOMAIN balances]_vars

\* an account holding 2 has transferred 2 to itself, a third account holding
\* a balance of its own
C25_Witness ==
    /\ last.op = "transfer" /\ last.result = "ok"
    /\ last.recipient = last.sender
    /\ last.amount = <<"2">>
    /\ balances[last.sender] = 2
    /\ \E other \in Accounts \ {last.sender} : balances[other] > 0

\* C26: burn fails and changes nothing when the caller's balance is below the
\* amount; otherwise it takes exactly the amount from the caller's balance
\* and from the total supply and changes no other balance: an account burns
\* its own tokens only.
C26_Burn ==
    [][\A sender \in Accounts, amount \in AccountAmounts :
           (try_burn(sender, amount) /\ parse_u128(amount) # ParseError) =>
               LET n == parse_u128(amount)
               IN  IF balances[sender] < n
                   THEN /\ last'.result = "insufficient funds to burn"
                        /\ UNCHANGED <<balances, total_supply, allowances>>
                   ELSE /\ last'.result = "ok"
                        /\ balances'[sender] = balances[sender] - n
                        /\ total_supply' = total_supply - n
                        /\ \A other \in Accounts \ {sender} :
                               balances'[other] = balances[other]
                        /\ DOMAIN balances' = DOMAIN balances
                        /\ UNCHANGED allowances]_vars

\* an account has burnt 2 of its tokens, the others holding tokens still
C26_Witness ==
    /\ last.op = "burn" /\ last.result = "ok" /\ last.amount = <<"2">>
    /\ \A other \in Accounts \ {last.sender} : balances[other] > 0
    /\ total_supply = balances["a1"] + balances["a2"] + balances["a3"]

\* C27: a transferFrom that returns an error, for insufficient allowance or
\* for insufficient funds of the owner, has written nothing: allowance(owner,
\* spender) and every balance equal their values before the call.
C27_FailedTransferFromWritesNothing ==
    [][\A sender \in Addr, owner \in Addr, recipient \in Addr, amount \in AmountStrings :
           (/\ try_transfer_from(sender, owner, recipient, amount)
            /\ last'.result \in {"Insufficient allowance", "Insufficient funds"}) =>
               /\ read_allowance(allowances', owner, sender) =
                      read_allowance(allowances, owner, sender)
               /\ balances' = balances]_vars

\* C28: a ledger init that fails validation (name, symbol, decimals, or a
\* malformed amount in an initial-balance row) performs no mutation: no
\* balance entry, total supply, constants or minter has been written when the
\* error is returned.
C28_FailedInitWritesNothing ==
    [][(phase = "new" /\ last'.op = "init" /\ last'.result # "ok") =>
           UNCHANGED <<balances, total_supply, constants, minter>>]_vars

\* C29: every governance handler (stake, withdraw, createPoll, castVote,
\* endPoll) that returns an error leaves the whole governance state
\* unchanged: the config (poll counter, aggregate staked counter), every
\* stake account, every poll and every per-poll-voter record are the same as
\* before the call.
C29_FailedHandlerWritesNothing ==
    [][glast'.result # "ok" =>
           UNCHANGED <<state, bank, polls, poll_voter_info, locked_tokens>>]_vars

\* an endPoll sent by an account that did not create the poll has been
\* refused with both accounts' stakes and votes in the store
C29_Witness ==
    /\ glast.op = "end_poll"
    /\ glast.result = "User is not the creator of the poll."
    /\ Len(polls[glast.poll_id].voters) = 2
    /\ state.staked_tokens = 2 * MIN_STAKE_AMOUNT
    /\ DOMAIN bank = Addr

\* C30: reading an absent key yields 0; an amount written and read again
\* yields the identical value; and reading a stored value whose length is not
\* exactly 16 bytes, shorter or longer, yields the error "Corrupted data
\* found. 16 byte expected." rather than a value or an abort.
C30_StorageAccessor ==
    raw.read # NoRead =>
        /\ raw.data = None => raw.read = ReadResult("ok", 0)
        /\ is_some(raw.written) => raw.read = ReadResult("ok", unwrap(raw.written))
        /\ (is_some(raw.data) /\ Len(unwrap(raw.data)) # U128_BYTES) =>
               raw.read.result = "Corrupted data found. 16 byte expected."

\* C31: the total supply changes only by mint and burn: it increases only on
\* a successful mint, by the minted amount, decreases only on a successful
\* burn, by the burned amount, and is left unchanged by transfer,
\* transferFrom and approve and by every rejected message.
C31_SupplyFrame ==
    [][phase = "ready" =>
           /\ total_supply' > total_supply =>
                  /\ last'.op = "mint" /\ last'.result = "ok"
                  /\ total_supply' = total_supply + parse_u128(last'.amount)
           /\ total_supply' < total_supply =>
                  /\ last'.op = "burn" /\ last'.result = "ok"
                  /\ total_supply' = total_supply - parse_u128(last'.amount)
           /\ (last'.op = "mint" /\ last'.result = "ok") =>
                  total_supply' = total_supply + parse_u128(last'.amount)
           /\ (last'.op = "burn" /\ last'.result = "ok") =>
                  total_supply' = total_supply - parse_u128(last'.amount)
           /\ last'.op \in {"transfer", "transfer_from", "approve"} =>
                  total_supply' = total_supply
           /\ last'.result # "ok" => total_supply' = total_supply]_vars

\* the minter has minted 1 on a ledger whose supply was 1
C31_Witness ==
    /\ last.op = "mint" /\ last.result = "ok" /\ last.amount = <<"1">>
    /\ last.sender = minter
    /\ total_supply = 2

\* poll_id is in the participation list of the account
Participated(voter, poll_id) ==
    /\ voter \in DOMAIN bank
    /\ \E i \in 1..Len(bank[voter].participated_polls) :
           bank[voter].participated_polls[i] = poll_id

VoteListsAgree ==
    \A id \in DOMAIN polls :
        /\ Len(polls[id].voters) = Len(polls[id].voter_info)
        /\ \A voter \in Addr : Participated(voter, id) <=> InVoters(voter, polls[id])

\* C32: a successful castVote appends the voter to the poll's voter list and
\* (label, weight) to its vote list at the same position, adds the poll id to
\* the voter's participation list and records the weight as the voter's lock
\* for that poll; in every reachable state a poll's voter list and vote list
\* have equal length, and a poll id is in an account's participation list
\* exactly when the account is in that poll's voter list.
C32_CastVoteRecords ==
    /\ []VoteListsAgree
    /\ [][\A sender \in Addr, poll_id \in {1, 2}, vote \in Votes, weight \in Weights :
              (cast_vote(sender, poll_id, vote, weight) /\ glast'.result = "ok") =>
                  /\ polls'[poll_id].voters = Append(polls[poll_id].voters, sender)
                  /\ polls'[poll_id].voter_info =
                         Append(polls[poll_id].voter_info, [vote |-> vote, weight |-> weight])
                  /\ Len(polls[poll_id].voters) = Len(polls[poll_id].voter_info)
                  /\ sender \in DOMAIN bank'
                  /\ bank'[sender].participated_polls =
                         Append(load_token_manager(sender).participated_polls, poll_id)
                  /\ bank'[sender].token_balance = StakedBalance(sender)
                  /\ poll_voter_info'[get_poll_voter_key(poll_id, sender)].weight = weight
                  /\ \A k \in DOMAIN poll_voter_info :
                         k # get_poll_voter_key(poll_id, sender) =>
                             poll_voter_info'[k] = poll_voter_info[k]]_vars

\* the second account has voted on a poll the first had voted on, with
\* another label and another weight
C32_Witness ==
    /\ glast.op = "cast_vote" /\ glast.result = "ok"
    /\ Len(polls[glast.poll_id].voters) = 2
    /\ polls[glast.poll_id].voters[2] = glast.sender
    /\ polls[glast.poll_id].voter_info[2] = [vote |-> glast.vote, weight |-> glast.weight]
    /\ polls[glast.poll_id].voter_info[1] # polls[glast.poll_id].voter_info[2]
    /\ \A voter \in Addr : Participated(voter, glast.poll_id)

\* C33: an allowance entry (owner, spender) changes only by an approve sent
\* by owner naming spender, which overwrites it, or by a successful
\* transferFrom sent by spender naming owner, which decrements it; every
\* other message leaves it unchanged, and approve changes no balance.
C33_AllowanceFrame ==
    [][phase = "ready" =>
           /\ \A owner \in Addr, spender \in Addr :
                  allowances'[owner][spender] # allowances[owner][spender] =>
                      \/ /\ last'.op = "approve" /\ last'.result = "ok"
                         /\ last'.sender = owner /\ last'.spender = spender
                         /\ allowances'[owner][spender] = parse_u128(last'.amount)
                      \/ /\ last'.op = "transfer_from" /\ last'.result = "ok"
                         /\ last'.sender = spender /\ last'.owner = owner
                         /\ allowances'[owner][spender] =
                                allowances[owner][spender] - parse_u128(last'.amount)
           /\ last'.op = "approve" => balances' = balances]_vars

\* C34: the minter is set once, at init, to the account that sent the init
\* message, and no handler message (transfer, transferFrom, approve, burn,
\* mint) ever changes it; a mint by that account succeeds and credits the
\* recipient and the total supply by the amount.
C34_Minter ==
    /\ [](phase = "new" => minter = NoAddr)
    /\ [][/\ (phase = "new" /\ last'.op = "init" /\ last'.result = "ok") =>
                 minter' = last'.sender
          /\ phase = "ready" => minter' = minter
          /\ (/\ phase = "ready"
              /\ last'.op = "mint"
              /\ last'.sender = minter
              /\ parse_u128(last'.amount) # ParseError) =>
                 /\ last'.result = "ok"
                 /\ balances'[last'.recipient] =
                        balances[last'.recipient] + parse_u128(last'.amount)
                 /\ total_supply' = total_supply + parse_u128(last'.amount)
                 /\ \A other \in Addr \ {last'.recipient} :
                        balances'[other] = balances[other]]_vars

\* a2, which sent the init message, has minted 1 to a1, which now holds 2
C34_Witness ==
    /\ last.op = "mint" /\ last.result = "ok" /\ last.amount = <<"1">>
    /\ last.sender = "a2" /\ minter = "a2"
    /\ last.recipient = "a1"
    /\ balances["a1"] = 2

\* the sum of the staked balances of the stake accounts
SumStaked ==
    LET RECURSIVE Sum(_)
        Sum(S) == IF S = {} THEN 0
                  ELSE LET a == CHOOSE x \in S : TRUE
                       IN  bank[a].token_balance + Sum(S \ {a})
    IN  Sum(DOMAIN bank)

\* C35: in every reachable governance state the aggregate staked-token
\* counter of the config equals the sum of the staked balances of all stake
\* accounts.
C35_StakedCounter == state.staked_tokens = SumStaked

\* after a withdrawal, one account holds a stake of 20 and the other one of 10
C35_Witness ==
    /\ glast.op = "withdraw" /\ glast.result = "ok" /\ glast.amount = Some(10)
    /\ DOMAIN bank = Addr
    /\ bank[glast.sender].token_balance = 10
    /\ state.staked_tokens = 30

\* the tallied weight of a poll
TalliedWeight(a_poll) ==
    sum_votes(a_poll.voter_info, TRUE) + sum_votes(a_poll.voter_info, FALSE)

\* C36: in every reachable state each account's staked balance is at least
\* the largest single weight it has committed to any poll it participated in,
\* the value locked_amount computes; hence the tallied weight of any poll
\* never exceeds the aggregate staked-token counter.
C36_StakeCoversLargestWeight ==
    /\ \A voter \in DOMAIN bank : bank[voter].token_balance >= locked_amount(voter)
    /\ \A id \in DOMAIN polls : TalliedWeight(polls[id]) <= state.staked_tokens

\* both accounts have voted with all of their stake, one of them after
\* withdrawing the part it did not vote with: the tallied weight is the whole
\* staked counter
C36_Witness ==
    /\ DOMAIN bank = Addr
    /\ \A voter \in Addr :
           /\ bank[voter].token_balance = MIN_STAKE_AMOUNT
           /\ locked_amount(voter) = MIN_STAKE_AMOUNT
    /\ TalliedWeight(polls[1]) = state.staked_tokens
    /\ glast.op = "withdraw" /\ glast.result = "ok"

\* C37: endPoll sent by the creator on an InProgress poll whose start and
\* end height conditions are met always completes with a result and leaves
\* the poll in a terminal status, for every staked balance the oracle
\* reports, 0 included, and every set of cast votes; it never aborts on a
\* division by zero.
C37_EndPollCompletes ==
    [][(/\ glast'.op = "end_poll"
        /\ glast' # glast
        /\ glast'.poll_id \in DOMAIN polls
        /\ polls[glast'.poll_id].creator = glast'.sender
        /\ polls[glast'.poll_id].status = "InProgress"
        /\ voting_period(polls[glast'.poll_id], height) = "ok") =>
           /\ glast'.result = "ok"
           /\ polls'[glast'.poll_id].status \in {"Passed", "Rejected"}]_vars

\* C38: the quorum compared with quorum_percentage is (tallied div staked) *
\* 100 without wraparound: whenever the tallied weight is at least the
\* oracle's staked balance (staked >= 1), the quorum test is met for every
\* quorum_percentage in 1..100, also when the ratio is 3 or more.
C38_QuorumNoWraparound ==
    (/\ tally.done
     /\ tally.staked_weight >= 1
     /\ tally.yes + tally.no >= tally.staked_weight
     /\ tally.quorum_percentage \in 1..100) =>
        /\ tally.outcome.result = "ok"
        /\ tally.outcome.rejected_reason # "Quorum not reached"

\* C39: votes are recorded only while the voting window is open: a cast_vote
\* on a poll in progress whose start_height is set and greater than the block
\* height, or whose end_height is set and already reached, is rejected and
\* adds no vote; a poll without a start_height takes votes from its creation
VotingClosed(a_poll) ==
    \/ NotStarted(a_poll)
    \/ is_some(a_poll.end_height) /\ unwrap(a_poll.end_height) <= height

C39_VotesOnlyInWindow ==
    [][\A sender \in Addr, poll_id \in 1..MaxPolls, vote \in Votes, weight \in Weights :
          (/\ cast_vote(sender, poll_id, vote, weight)
           /\ poll_id <= Len(polls)
           /\ polls[poll_id].status = "InProgress"
           /\ VotingClosed(polls[poll_id])) =>
              /\ glast'.result # "ok"
              /\ polls'[poll_id].voters = polls[poll_id].voters
              /\ polls'[poll_id].voter_info = polls[poll_id].voter_info]_vars

\* C40: poll operations never change stake amounts: create_poll, cast_vote
\* and end_poll leave every account's staked balance and the staked_tokens
\* counter unchanged and emit no message; stake_voting_tokens and
\* withdraw_voting_tokens leave every poll and the poll counter unchanged and
\* change no stake account but the sender's
C40_PollsAndStakeApart ==
    [][/\ glast'.op \in {"create_poll", "cast_vote", "end_poll"} =>
             /\ \A a \in Addr : StakedBalance(a)' = StakedBalance(a)
             /\ state'.staked_tokens = state.staked_tokens
             /\ glast'.messages = <<>>
       /\ glast'.op \in {"stake", "withdraw"} =>
             /\ polls' = polls
             /\ state'.poll_count = state.poll_count
             /\ \A a \in Addr \ {glast'.sender} :
                    /\ (a \in DOMAIN bank') = (a \in DOMAIN bank)
                    /\ a \in DOMAIN bank => bank'[a] = bank[a]]_vars

\* a vote and a resolution on the stake of two accounts, then a withdrawal
C40_Witness ==
    /\ glast.op = "withdraw"
    /\ glast.result = "ok"
    /\ Len(polls) = 1
    /\ polls[1].status # "InProgress"
    /\ Len(polls[1].voters) = 2
    /\ \A a \in Addr : a \in DOMAIN bank
    /\ state.staked_tokens > 0

====
